------------------------------ MODULE MCTools ------------------------------
(***************************************************************************)
(* The repository's two sequential programs on text, config.Load and the   *)
(* import linter, each on all of its bounded inputs.  They share nothing:  *)
(* a behaviour is one of the two.                                          *)
(***************************************************************************)
EXTENDS Config, ArchLint

CONSTANT MaxText  \* longest text of a setting

Line(k, t, s, n) == [key |-> k, text |-> t, style |-> s, note |-> n]
Noise == {Line("", t, "noise", FALSE) :
            t \in {<<>>, <<" ">>, <<"v">>, <<"#", " ", "v">>, <<"=", "v">>,
                   <<"#", "JWT_SECRET", "=", "w">>, <<"v", " ", "JWT_SECRET", "=", "w">>}}

Styles == {"bare", "spaced"} \cup Quotes
BothRequired == (<<"POSTGRES_DSN">> :> <<"v">>) @@ (<<"JWT_SECRET">> :> <<"v">>)

\* Every text, style and note for one string and one number.
OneLine ==
    {[env |-> BothRequired, file |-> <<Line(k, t, s, n)>>] :
        k \in {"REDIS_PASSWORD", "RATE_LIMIT_WINDOW"},
        t \in SeqOf({"v", "w", " ", "#", "=", "\"", "'"}, MaxText),
        s \in Styles, n \in BOOLEAN}

\* Lines that do not fit into the scanner's buffer.
TooLong == [i \in 1..MaxScanTokenSize |-> "v"]
LongLines == {Line("", TooLong, "noise", FALSE), Line("JWT_SECRET", TooLong, "bare", FALSE)}

\* Environments and files that set, repeat, leave out or blank the required
\* settings, with other lines in between.
SecretLines ==
    Noise \cup LongLines \cup
        {Line(k, t, "bare", FALSE) :
            k \in {"POSTGRES_DSN", "JWT_SECRET"}, t \in {<<>>, <<"v">>, <<"w">>}}
PartialEnvs ==
    UNION {[D -> {<<>>, <<"v">>}] : D \in SUBSET {<<"POSTGRES_DSN">>, <<"JWT_SECRET">>}}
ManyLines == {[env |-> e, file |-> f] : e \in PartialEnvs, f \in SeqOf(SecretLines, 3)}

MCInputs == OneLine \cup ManyLines

\* Packages in and beside the business modules, and imports of all kinds.
InModule(rest) == moduleRoot \o <<"/", "internal", "/">> \o rest
Packages == {InModule(<<"order">>), InModule(<<"order", "/", "domain">>),
             InModule(<<"inventory">>), InModule(<<"shipment">>),
             InModule(<<"gateway">>)}
Imports == Packages \cup {InModule(<<"order", "book">>), <<"fmt">>,
                          <<"elsewhere", "/", "internal", "/", "order">>}
MCPrograms == UNION {[D -> {S \in SUBSET Imports : Cardinality(S) <= 2}] :
                       D \in {S \in SUBSET Packages : Cardinality(S) = 2}}

ConfigIdle == input = [env |-> <<>>, file |-> <<>>] /\ scanned = 0 /\ stop = "no"
              /\ environ = <<>> /\ cfg = [err |-> "idle"]
LintIdle == program = <<>> /\ todo = {} /\ found = {} /\ verdict = "idle"

Init == (ConfigInit /\ LintIdle) \/ (ConfigIdle /\ LintInit)
Next == \/ ConfigNext /\ UNCHANGED lintVars
        \/ LintNext /\ UNCHANGED configVars
Spec == Init /\ [][Next]_<<configVars, lintVars>>
=============================================================================
