-------------------------------- MODULE I8k ---------------------------------
(***************************************************************************)
(* The i8k reader of src/src/data/hardware/i8k.cc.  update_i8k reads the   *)
(* one line of /proc/i8k into a 128-byte buffer and splits it with strtok  *)
(* on " " into ten token pointers; the printers of the ${i8k_*} variables  *)
(* format the token of their field.  The dell-smm driver writes the line   *)
(* "%s %s %s %d %d %d %d %d %d %d\n": version, BIOS version, serial, CPU   *)
(* temperature, left and right fan status, left and right fan speed, AC    *)
(* status and Fn-key status.  The driver can be loaded or unloaded, and    *)
(* the line can change, between any two updates.                          *)
(***************************************************************************)
EXTENDS Integers, Sequences, FiniteSets

CONSTANTS
    Lines,       \* the lines the driver may publish, each a sequence of its
                 \* ten fields as strings ("" for an empty %s field)
    Num,         \* atoi/sscanf("%d") of the numeric strings of Lines
    ReadFails,   \* whether fread may return 0 on an existing /proc/i8k
    Garbage,     \* the values an uninitialised int may hold
    Used,        \* the ${i8k_*} variables the configuration uses
    MaxEnv,      \* bound on driver loads, unloads and changes
    MaxUpdates   \* bound on the calls of update_i8k

\* The fields of struct _i8k, in the order update_i8k assigns them.
FieldNames == <<"version", "bios", "serial", "cpu_temp", "left_fan_status",
                "right_fan_status", "left_fan_rpm", "right_fan_rpm",
                "ac_status", "buttons_status">>
Fields == {FieldNames[k] : k \in 1..10}
FanFields == {"left_fan_status", "right_fan_status"}
\* The place of field f in the line and among strtok's calls.
Pos(f) == CHOOSE k \in 1..10 : FieldNames[k] = f
StringFields == {"version", "bios", "serial", "left_fan_rpm",
                 "right_fan_rpm", "buttons_status"}

ASSUME I8kAssumptions ==
    /\ Lines \subseteq [1..10 -> STRING]
    /\ Num \in [DOMAIN Num -> Int]
    /\ ReadFails \in BOOLEAN
    /\ Used \subseteq Fields
    /\ MaxEnv \in Nat /\ MaxUpdates \in Nat

\* /proc/i8k does not exist: the driver is not loaded (no line at all).
NoFile == <<>>
\* An empty field, or no bytes at all.
Empty == ""
\* A token pointer that strtok returned as nullptr.
Null == [s |-> Empty, nl |-> FALSE, null |-> TRUE]
\* The word of print_i8k_ac_status when none of its three cases matches,
\* so that it writes nothing to p.
Unwritten == "unwritten"

VARIABLES
    drv,       \* the line /proc/i8k holds, or NoFile
    tok,       \* i8k.<field>: the token each pointer points to, or Null
    lastRead,  \* the line of the last successful read (a history variable)
    out,       \* what each printer wrote on its last call, and the line it
               \* was reading then (history)
    printed,   \* the printers that have run
    crashed,   \* the process died on sscanf(nullptr)
    nEnv, nUpdates

vars == <<drv, tok, lastRead, out, printed, crashed, nEnv, nUpdates>>

-----------------------------------------------------------------------------
\* strtok(buf, " ") and its nine strtok(nullptr, " ") calls: the tokens are
\* the maximal runs of non-space bytes, so an empty field yields no token
\* and the line's closing newline stays on its last token; a call after the
\* last token returns nullptr.
NonEmpty(line) == {i \in 1..Len(line) : line[i] # Empty}
\* The place in the line of the k-th token.
TokAt(line, k) ==
    CHOOSE j \in NonEmpty(line) : Cardinality({i \in NonEmpty(line) : i <= j}) = k
Tokens(line) ==
    LET n == Cardinality(NonEmpty(line))
    IN [f \in Fields |->
          LET k == Pos(f)
          IN IF k <= n
             THEN [s |-> line[TokAt(line, k)], nl |-> k = n, null |-> FALSE]
             ELSE Null]

\* A buffer that memset left all zero: strtok finds no token at all.
NoTokens == [f \in Fields |-> Null]

\* atoi, which stops at the newline, and gives 0 on text.
Atoi(t) == IF t.s \in DOMAIN Num THEN Num[t.s] ELSE 0

\* status_arr of print_i8k_fan_status.
StatusArr == <<"off", "low", "high", "error">>

\* Mutant: the fan index checked only against its upper end.
FanIndexNoLowerCheck(t) ==
    LET i == IF t.null THEN 3 ELSE Atoi(t)
    IN IF i > 3 THEN 3 ELSE i

\* print_i8k_fan_status: a missing token or a value outside 0..3 is "error".
FanIndex(t) ==
    LET i == IF t.null THEN 3 ELSE Atoi(t)
    IN IF i < 0 \/ i > 3 THEN 3 ELSE i

\* status_arr[i]: an index below 0 reads before the array.
FanWord(i) == IF i \in 0..3 THEN StatusArr[i + 1] ELSE "garbage"

\* print_i8k_ac_status's three cases.
AcWord(v) ==
    CASE v = -1 -> "disabled (read i8k docs)"
      [] v = 0 -> "off"
      [] v = 1 -> "on"
      [] OTHER -> Unwritten

\* I8K_PRINT_GENERATOR: the token with its bytes, newline included.
StrWord(t) ==
    IF t.null THEN "error" ELSE IF t.nl THEN t.s \o "\n" ELSE t.s

-----------------------------------------------------------------------------
Init ==
    /\ drv \in Lines \cup {NoFile}
    /\ tok = NoTokens
    /\ lastRead = NoFile
    /\ out = [f \in Fields |-> [w |-> Unwritten, from |-> NoFile]]
    /\ printed = {}
    /\ crashed = FALSE
    /\ nEnv = 0 /\ nUpdates = 0

\* The driver is loaded, unloaded or publishes another line.
DriverChange(l) ==
    /\ ~crashed /\ nEnv < MaxEnv
    /\ l # drv
    /\ drv' = l
    /\ nEnv' = nEnv + 1
    /\ UNCHANGED <<tok, lastRead, out, printed, crashed, nUpdates>>

\* update_i8k: return 1 when fopen fails, leaving every pointer as it was;
\* otherwise zero the buffer, fread it (an error is only logged), and
\* point the ten fields at strtok's tokens.
UpdateI8k ==
    /\ ~crashed /\ nUpdates < MaxUpdates
    /\ nUpdates' = nUpdates + 1
    /\ IF drv = NoFile
       THEN UNCHANGED <<tok, lastRead>>
       ELSE \/ /\ tok' = Tokens(drv)
               /\ lastRead' = drv
            \/ /\ ReadFails
               /\ tok' = NoTokens
               /\ lastRead' = NoFile
    /\ UNCHANGED <<drv, out, printed, crashed, nEnv>>

\* The printer of field f has written w.
Wrote(f, w) ==
    /\ out' = [out EXCEPT ![f] = [w |-> w, from |-> lastRead]]
    /\ printed' = printed \cup {f}
    /\ UNCHANGED <<drv, tok, lastRead, crashed, nEnv, nUpdates>>

\* print_i8k_left_fan_status and print_i8k_right_fan_status.
PrintFanStatus(f) ==
    /\ ~crashed /\ f \in Used \cap FanFields
    /\ Wrote(f, FanWord(FanIndex(tok[f])))

\* sscanf(nullptr, ...) dereferences the null pointer.
Crash ==
    /\ crashed' = TRUE
    /\ UNCHANGED <<drv, tok, lastRead, out, printed, nEnv, nUpdates>>

\* print_i8k_cpu_temp: sscanf of the token; on text cpu_temp stays
\* uninitialised.
PrintCpuTemp ==
    /\ ~crashed /\ "cpu_temp" \in Used
    /\ IF tok["cpu_temp"].null THEN Crash
       ELSE IF tok["cpu_temp"].s \in DOMAIN Num
       THEN Wrote("cpu_temp", Num[tok["cpu_temp"].s])
       ELSE \E g \in Garbage : Wrote("cpu_temp", g)

\* print_i8k_ac_status: as print_i8k_cpu_temp, then one of three words.
PrintAcStatus ==
    /\ ~crashed /\ "ac_status" \in Used
    /\ IF tok["ac_status"].null THEN Crash
       ELSE IF tok["ac_status"].s \in DOMAIN Num
       THEN Wrote("ac_status", AcWord(Num[tok["ac_status"].s]))
       ELSE \E g \in Garbage : Wrote("ac_status", AcWord(g))

\* The six printers of I8K_PRINT_GENERATOR.
PrintString(f) ==
    /\ ~crashed /\ f \in Used \cap StringFields
    /\ Wrote(f, StrWord(tok[f]))

Next ==
    \/ \E l \in Lines \cup {NoFile} : DriverChange(l)
    \/ UpdateI8k
    \/ \E f \in FanFields : PrintFanStatus(f)
    \/ PrintCpuTemp
    \/ PrintAcStatus
    \/ \E f \in StringFields : PrintString(f)

Spec == Init /\ [][Next]_vars

-----------------------------------------------------------------------------
(* Properties                                                              *)

\* What the driver means by field f of line l, as the variable should show
\* it: the field's text, the temperature, or the word for a status.
Meant(l, f) ==
    LET v == l[Pos(f)]
    IN CASE f \in FanFields ->
              IF v \in DOMAIN Num /\ Num[v] \in 0..2
              THEN StatusArr[Num[v] + 1] ELSE "error"
         [] f = "cpu_temp" -> Num[v]
         [] f = "ac_status" -> AcWord(Num[v])
         [] OTHER -> v

\* Every ${i8k_*} variable shows what the driver said in the field of the
\* line update_i8k had last read when it ran, if that read succeeded: the ten
\* strtok calls hand each printer its own field.
PrintsLastRead ==
    \A f \in printed :
        out[f].from # NoFile => out[f].w = Meant(out[f].from, f)

\* No ${i8k_*} variable crashes conky: print_i8k_cpu_temp and
\* print_i8k_ac_status never pass a null token to sscanf.
NoNullDeref == ~crashed
=============================================================================
