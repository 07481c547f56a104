------------------------------- MODULE Config -------------------------------
(***************************************************************************)
(* config.Load: the .env file is scanned line by line into the process     *)
(* environment, then every setting is read from it, with a default where   *)
(* there is one.  (shared/config/config.go)                                *)
(*                                                                         *)
(* A text is a sequence of characters; "v" and "w" stand for ordinary ones *)
(* and the name of a setting for all of its own.  A file is a sequence of  *)
(* what its author meant each line to say; Raw is the line itself.         *)
(*                                                                         *)
(* A definition whose name ends in a fault (valueOfLastQuote, ...) stands  *)
(* just before the one it is a wrong version of; no step uses it.          *)
(***************************************************************************)
EXTENDS Integers, SequencesExt

CONSTANTS
    Inputs,           \* what Load may find: [env, file]
    MaxScanTokenSize  \* bufio's limit: 64 KiB, the end of the line included

ASSUME LimitAssumption == MaxScanTokenSize \in Nat

Required == <<"POSTGRES_DSN", "JWT_SECRET">>  \* in the order they are checked
Numbers == {"SERVER_SHUTDOWN_TIMEOUT", "ACCESS_TOKEN_TTL", "REFRESH_TOKEN_TTL",
            "POLICY_CACHE_REFRESH", "POLICY_EVAL_TIMEOUT_MS", "RATE_LIMIT_REQUESTS",
            "RATE_LIMIT_WINDOW", "IDEMPOTENCY_TTL"}
Strings == {"LOG_LEVEL", "SERVER_ADDR", "REDIS_ADDR"}
Settings == ToSet(Required) \cup Numbers \cup Strings \cup {"REDIS_PASSWORD"}
Default == <<"default">>

Blank == " "
Quotes == {"\"", "'"}

\* A line as its author writes it: a key's text bare or in quotes, with or without
\* a note behind it; or a line that sets nothing Load reads.
Raw(l) ==
    IF l.style = "noise" THEN l.text
    ELSE <<l.key, "=">>
         \o (CASE l.style = "bare" -> l.text
               [] l.style = "spaced" -> <<Blank>> \o l.text
               [] OTHER -> <<l.style>> \o l.text \o <<l.style>>)
         \o (IF l.note THEN <<Blank, "#", "v", "'">> ELSE <<>>)

TrimSpace(s) ==
    LET I == {i \in DOMAIN s : s[i] # Blank}
    IN  IF I = {} THEN <<>> ELSE SubSeq(s, Min(I), Max(I))

\* The first place of one of the characters, or 0.
IndexAny(s, chars) == SelectInSeq(s, LAMBDA c : c \in chars)

valueOfLastQuote(raw) ==
    LET value == TrimSpace(raw)
    IN  IF value # <<>> /\ value[1] \in Quotes
        THEN LET ends == {i \in 2..Len(value) : value[i] = value[1]}
             IN  SubSeq(value, 2, IF ends = {} THEN Len(value) ELSE Max(ends) - 1)
        ELSE LET i == IndexAny(value, {Blank})
             IN  IF i > 0 /\ "#" \in ToSet(SubSeq(value, i, Len(value)))
                 THEN TrimSpace(SubSeq(value, 1, i - 1)) ELSE value

\* What stands behind the "=": a quoted value ends at the matching quote, a bare
\* one at its first blank if a "#" comes anywhere after that.
valueOf(raw) ==
    LET value == TrimSpace(raw)
    IN  IF value # <<>> /\ value[1] \in Quotes
        THEN LET end == IndexAny(Tail(value), {value[1]})
             IN  IF end > 0 THEN SubSeq(value, 2, end) ELSE Tail(value)
        ELSE LET i == IndexAny(value, {Blank})
             IN  IF i > 0 /\ "#" \in ToSet(SubSeq(value, i, Len(value)))
                 THEN TrimSpace(SubSeq(value, 1, i - 1)) ELSE value

\* What stands before the "=", or nothing: blank lines, comments and lines
\* without "=" are skipped.
keyOf(line) ==
    LET eq == IndexAny(line, {"="})
    IN  IF line = <<>> \/ line[1] = "#" \/ eq = 0 THEN <<>>
        ELSE TrimSpace(SubSeq(line, 1, eq - 1))

\* Every line says what its author meant: one of the settings, written in one of
\* the ways Raw knows, or noise, which sets none of them.
ASSUME InputsAssumption ==
    \A i \in Inputs :
        /\ i.file \in Seq([key : STRING, text : Seq(STRING), style : STRING, note : BOOLEAN])
        /\ \A n \in DOMAIN i.file :
             LET l == i.file[n]
             IN  IF l.style = "noise"
                 THEN /\ l.key \notin Settings
                      /\ keyOf(TrimSpace(l.text)) \notin {<<k>> : k \in Settings}
                 ELSE l.key \in Settings /\ l.style \in {"bare", "spaced"} \cup Quotes

VARIABLES
    input,    \* what Load found
    scanned,  \* how many lines of the file have been read
    stop,     \* why scanner.Scan gave up before the end of the file, if it did
    environ,  \* the process environment
    cfg       \* what Load returns: the settings or the missing one

configVars == <<input, scanned, stop, environ, cfg>>

NotLoaded == [err |-> "none"]

ConfigInit ==
    /\ input \in Inputs
    /\ scanned = 0
    /\ stop = "no"
    /\ environ = input.env
    /\ cfg = NotLoaded

SetenvOverwrites(key, value) ==
    environ' = [k \in DOMAIN environ \cup {key} |-> IF k = key THEN value ELSE environ[k]]

\* A variable that exists is left alone, even an empty one.
Setenv(key, value) ==
    environ' = [k \in DOMAIN environ \cup {key} |->
                    IF k \in DOMAIN environ THEN environ[k] ELSE value]

\* The body of loadDotEnv's loop; the system refuses a variable without a name.
Assign(raw) ==
    LET line == TrimSpace(raw)
    IN  IF keyOf(line) = <<>> THEN UNCHANGED environ
        ELSE Setenv(keyOf(line),
                    valueOf(SubSeq(line, IndexAny(line, {"="}) + 1, Len(line))))

\* The line fits into the scanner's buffer.
Fits(l) == Len(Raw(l)) < MaxScanTokenSize

\* scanner.Scan returns the next line, or gives up at one that does not fit:
\* nobody looks at scanner.Err, and the rest of the file is ignored.
Scan ==
    /\ stop = "no"
    /\ scanned < Len(input.file)
    /\ LET l == input.file[scanned + 1]
       IN  \/ /\ Fits(l)
              /\ scanned' = scanned + 1
              /\ Assign(Raw(l))
              /\ UNCHANGED stop
           \/ /\ ~Fits(l)
              /\ stop' = "long"
              /\ UNCHANGED <<scanned, environ>>
    /\ UNCHANGED <<input, cfg>>

\* The file cannot be opened, or a read fails: what had come of the line by then
\* is taken for all of it, and the rest of the file is ignored.
ReadError ==
    /\ stop = "no"
    /\ scanned < Len(input.file)
    /\ LET raw == Raw(input.file[scanned + 1])
       IN  \E n \in 0..Len(raw) : n < MaxScanTokenSize /\ Assign(SubSeq(raw, 1, n))
    /\ stop' = "error"
    /\ UNCHANGED <<input, scanned, cfg>>

Getenv(k) == IF <<k>> \in DOMAIN environ THEN environ[<<k>>] ELSE <<>>

\* time.ParseDuration and strconv.Atoi: only "v"s make a number here.
Parses(text) == text # <<>> /\ ToSet(text) = {"v"}

\* getEnvOrDefault, getDurationOrDefault, getIntOrDefault, requireEnv, os.Getenv.
Setting(k) ==
    CASE k \in Strings -> IF Getenv(k) = <<>> THEN Default ELSE Getenv(k)
      [] k \in Numbers -> IF Parses(Getenv(k)) THEN Getenv(k) ELSE Default
      [] OTHER -> Getenv(k)

\* Load behind loadDotEnv.
Load ==
    /\ scanned = Len(input.file) \/ stop # "no"
    /\ cfg = NotLoaded
    /\ LET missing == SelectInSeq(Required, LAMBDA k : Getenv(k) = <<>>)
       IN  cfg' = IF missing > 0 THEN [err |-> Required[missing]]
                  ELSE [err |-> "nil", set |-> [k \in Settings |-> Setting(k)]]
    /\ UNCHANGED <<input, scanned, stop, environ>>

ConfigNext == Scan \/ ReadError \/ Load

ConfigSpec == ConfigInit /\ [][ConfigNext]_configVars

-----------------------------------------------------------------------------
(* Properties                                                              *)

\* The ways of writing a text that say what they seem to: in quotes it does not
\* contain; or bare, not beginning like a quoted one, without blanks around it,
\* without both a blank and a "#", and not missing in front of a note.
Clear(l) ==
    IF l.style \in Quotes THEN l.style \notin ToSet(l.text)
    ELSE l.style # "noise" =>
         /\ l.text = TrimSpace(l.text)
         /\ l.text # <<>> => l.text[1] \notin Quotes
         /\ (l.note \/ "#" \in ToSet(l.text)) => Blank \notin ToSet(l.text)
         /\ l.note => l.text # <<>>

\* The lines in front of the first one that does not fit.
Readable ==
    {i \in DOMAIN input.file : \A j \in 1..i : Fits(input.file[j])}

\* What the author of the file and of the environment wants a setting to be:
\* the variable, even an empty one, before the file, and its first line for the
\* key before the others.  A line behind one that does not fit does not count.
Wanted(k) ==
    LET lines == {i \in Readable : input.file[i].key = k}
    IN  IF <<k>> \in DOMAIN input.env THEN input.env[<<k>>]
        ELSE IF lines = {} THEN <<>> ELSE input.file[Min(lines)].text

\* The file says what its author wrote: whatever other lines surround it, whatever
\* characters are in it and whatever the environment already holds, each setting
\* reaches the environment as it was written, up to the first line of 64 KiB and
\* unless reading the file fails (config.go:120-165).
ReadAsWritten ==
    cfg # NotLoaded /\ stop # "error" /\ (\A i \in Readable : Clear(input.file[i])) =>
        \A k \in Settings : Getenv(k) = Wanted(k)

\* Load gives a complete configuration, or names the first required setting that
\* is empty, also when the file was read in part; a number that cannot be read
\* never reaches a component, and no line of the file changes a variable the
\* process was started with (config.go:72-118, 167-212).  "Malformed" values do
\* not make Load fail, against config.go:69-71: a required one is taken as it
\* stands and a number is replaced by its default.
LoadComplete ==
    /\ \A k \in DOMAIN input.env : environ[k] = input.env[k]
    /\ cfg # NotLoaded =>
         IF cfg.err = "nil"
         THEN /\ \A k \in ToSet(Required) : cfg.set[k] # <<>>
              /\ \A k \in Numbers : cfg.set[k] = Default \/ Parses(cfg.set[k])
              /\ \A k \in Settings : cfg.set[k] \in {Getenv(k), Default}
         ELSE /\ Getenv(cfg.err) = <<>>
              /\ cfg.err = "JWT_SECRET" => Getenv("POSTGRES_DSN") # <<>>
=============================================================================
