----------------------------- MODULE I8k_proofs -----------------------------
(***************************************************************************)
(* Proofs about the i8k reader: for every driver whose lines carry all ten *)
(* fields of the dell-smm format, with its %d fields numbers, and every    *)
(* configuration without ${i8k_buttons_status}, each printer shows what    *)
(* the driver meant by its own field of the line update_i8k read last.    *)
(***************************************************************************)
EXTENDS I8k, FiniteSetTheorems, SequenceTheorems, TLAPS

\* The fields the driver writes with %d.
NumFields == {"cpu_temp", "left_fan_status", "right_fan_status", "ac_status"}

\* A line as the driver's format "%s %s %s %d %d %d %d %d %d %d\n" writes
\* it: no field is empty, and every %d field is a number.
DriverLine(l) ==
    /\ \A k \in 1..10 : l[k] # Empty
    /\ \A f \in NumFields : l[Pos(f)] \in DOMAIN Num

\* The driver writes only such lines, and the configuration does not show
\* ${i8k_buttons_status}, whose token keeps the line's newline.
DriverFormat ==
    /\ \A l \in Lines : DriverLine(l)
    /\ "buttons_status" \notin Used

-----------------------------------------------------------------------------
(* The inductive invariant.  PrintsLastRead alone is not inductive: a     *)
(* printer's word comes from tok, so the invariant must say that tok holds *)
(* the tokens of the line lastRead names (or none, after a failed read or *)
(* before any read), and that this line is one the driver can publish.    *)

DrvInv == drv \in Lines \cup {NoFile}

TokInv ==
    \/ lastRead = NoFile /\ tok = NoTokens
    \/ lastRead \in Lines /\ tok = Tokens(lastRead)

OutInv ==
    /\ DOMAIN out = Fields
    /\ printed \subseteq Used

IInv == DrvInv /\ TokInv /\ OutInv /\ PrintsLastRead

-----------------------------------------------------------------------------
(* Lemmas about the operators the model is built from.                     *)

\* Each field has its place among the ten, and only the Fn-key status is
\* last.
LEMMA PosFacts ==
    ASSUME NEW f \in Fields
    PROVE  /\ Pos(f) \in 1..10
           /\ FieldNames[Pos(f)] = f
           /\ Pos(f) = 10 <=> f = "buttons_status"
<1>1. \E k \in 1..10 : FieldNames[k] = f
    BY DEF Fields
<1>2. Pos(f) \in 1..10 /\ FieldNames[Pos(f)] = f
    BY <1>1 DEF Pos
<1>3. Pos(f) = 10 <=> f = "buttons_status"
    BY <1>2 DEF FieldNames
<1>. QED BY <1>2, <1>3

\* A line of ten fields is a sequence of length ten.
LEMMA LineLen ==
    ASSUME NEW l \in [1..10 -> STRING]
    PROVE  Len(l) = 10
<1>1. l \in Seq(STRING)
    BY SeqDef
<1>2. DOMAIN l = 1..Len(l) /\ Len(l) \in Nat
    BY <1>1, LenProperties
<1>. QED BY <1>2

\* The tokens below place j of a line with no empty field are 1..j.
LEMMA PrefixCard ==
    ASSUME NEW j \in 1..10
    PROVE  /\ Cardinality(1..j) = j
           /\ Cardinality({i \in 1..10 : i <= j}) = j
<1>1. {i \in 1..10 : i <= j} = 1..j
    OBVIOUS
<1>2. Cardinality(1..j) = IF 1 > j THEN 0 ELSE j - 1 + 1
    BY FS_Interval
<1>3. Cardinality(1..j) = j
    BY <1>2
<1>. QED BY <1>1, <1>3, Zenon

\* strtok on a line with no empty field: the k-th call returns the k-th
\* field, and only the last token carries the newline.
LEMMA TokensFull ==
    ASSUME NEW l \in [1..10 -> STRING], \A k \in 1..10 : l[k] # Empty,
           NEW f \in Fields
    PROVE  Tokens(l)[f] = [s |-> l[Pos(f)], nl |-> Pos(f) = 10, null |-> FALSE]
<1>1. NonEmpty(l) = 1..10
    BY LineLen DEF NonEmpty
<1>2. Cardinality(NonEmpty(l)) = 10
    <2>0. 10 \in 1..10
        OBVIOUS
    <2>1. Cardinality(1..10) = 10
        BY <2>0, PrefixCard
    <2>. QED BY <1>1, <2>1, Zenon
<1>3. ASSUME NEW k \in 1..10 PROVE TokAt(l, k) = k
    <2>1. \A j \in 1..10 : Cardinality({i \in NonEmpty(l) : i <= j}) = j
        BY <1>1, PrefixCard
    <2>. QED BY <1>1, <2>1 DEF TokAt
<1>4. Pos(f) \in 1..10
    BY PosFacts
<1>5. Pos(f) <= Cardinality(NonEmpty(l))
    <2>1. Pos(f) <= 10
        BY <1>4
    <2>. QED BY <1>2, <2>1, Zenon
<1>6. l[TokAt(l, Pos(f))] = l[Pos(f)]
    BY <1>3, <1>4
<1>. QED BY <1>2, <1>5, <1>6, Zenon DEF Tokens

\* What print_i8k_fan_status shows for a token that is there and is a
\* number: the status word of 0, 1 or 2, and "error" for anything else.
LEMMA FanWordOf ==
    ASSUME NEW t, ~t.null, t.s \in DOMAIN Num
    PROVE  FanWord(FanIndex(t)) =
               IF Num[t.s] \in 0..2 THEN StatusArr[Num[t.s] + 1] ELSE "error"
<1>1. Num[t.s] \in Int
    BY I8kAssumptions
<1>2. FanIndex(t) = IF Num[t.s] < 0 \/ Num[t.s] > 3 THEN 3 ELSE Num[t.s]
    BY DEF FanIndex, Atoi
<1>. QED BY <1>1, <1>2 DEF FanWord, StatusArr

\* Meant, field class by field class, for a field that is a number where
\* the driver writes %d.
LEMMA MeantOf ==
    ASSUME NEW l, NEW f \in Fields
    PROVE  /\ f \in FanFields =>
                 Meant(l, f) = IF l[Pos(f)] \in DOMAIN Num /\ Num[l[Pos(f)]] \in 0..2
                               THEN StatusArr[Num[l[Pos(f)]] + 1] ELSE "error"
           /\ f = "cpu_temp" => Meant(l, f) = Num[l[Pos(f)]]
           /\ f = "ac_status" => Meant(l, f) = AcWord(Num[l[Pos(f)]])
           /\ f \in StringFields => Meant(l, f) = l[Pos(f)]
BY Zenon DEF Meant, FanFields, StringFields

\* The token a printer reads after a successful read: its own field of the
\* line read, with the newline only on the Fn-key status.
LEMMA TokOf ==
    ASSUME DriverFormat, TokInv, lastRead # NoFile, NEW f \in Fields
    PROVE  /\ lastRead \in Lines
           /\ DriverLine(lastRead)
           /\ tok[f] = [s |-> lastRead[Pos(f)], nl |-> Pos(f) = 10, null |-> FALSE]
<1>1. lastRead \in Lines /\ tok = Tokens(lastRead)
    BY DEF TokInv
<1>2. DriverLine(lastRead)
    BY <1>1 DEF DriverFormat
<1>3. lastRead \in [1..10 -> STRING]
    BY <1>1, I8kAssumptions
<1>. QED BY <1>1, <1>2, <1>3, TokensFull DEF DriverLine

-----------------------------------------------------------------------------
(* The steps.                                                              *)

\* A printer that writes what the driver meant by its field of the line
\* last read keeps the invariant.
LEMMA WroteKeeps ==
    ASSUME IInv, NEW f \in Used, NEW w, Wrote(f, w),
           lastRead # NoFile => w = Meant(lastRead, f)
    PROVE  IInv'
<1>1. (DrvInv /\ TokInv)'
    BY DEF Wrote, DrvInv, TokInv, IInv
<1>2. OutInv'
    BY DEF Wrote, OutInv, IInv
<1>3. PrintsLastRead'
    <2>1. SUFFICES ASSUME NEW g \in printed', out'[g].from # NoFile
                   PROVE  out'[g].w = Meant(out'[g].from, g)
        BY DEF PrintsLastRead
    <2>2. f \in Fields
        BY I8kAssumptions
    <2>3. CASE g = f
        BY <2>1, <2>2, <2>3 DEF Wrote, IInv, OutInv
    <2>4. CASE g # f
        <3>1. g \in printed /\ out'[g] = out[g]
            BY <2>1, <2>4 DEF Wrote, IInv, OutInv
        <3>. QED BY <2>1, <3>1 DEF IInv, PrintsLastRead
    <2>. QED BY <2>3, <2>4
<1>. QED BY <1>1, <1>2, <1>3 DEF IInv

\* The invariant holds initially.
LEMMA InitIInv == Init => IInv
BY DEF Init, IInv, DrvInv, TokInv, OutInv, PrintsLastRead

\* print_i8k_fan_status shows the status word of its field.
LEMMA FanStep ==
    ASSUME DriverFormat, IInv, NEW f \in FanFields, PrintFanStatus(f)
    PROVE  IInv'
<1>1. f \in Used /\ f \in Fields
    BY DEF PrintFanStatus, FanFields, Fields, FieldNames
<1>2. ASSUME lastRead # NoFile
      PROVE  FanWord(FanIndex(tok[f])) = Meant(lastRead, f)
    <2>1. /\ DriverLine(lastRead)
          /\ tok[f] = [s |-> lastRead[Pos(f)], nl |-> Pos(f) = 10, null |-> FALSE]
        BY <1>1, <1>2, TokOf DEF IInv
    <2>2. lastRead[Pos(f)] \in DOMAIN Num
        BY <2>1 DEF DriverLine, NumFields, FanFields
    <2>3. FanWord(FanIndex(tok[f])) =
              IF Num[lastRead[Pos(f)]] \in 0..2
              THEN StatusArr[Num[lastRead[Pos(f)]] + 1] ELSE "error"
        BY <2>1, <2>2, FanWordOf
    <2>. QED BY <1>1, <2>2, <2>3, MeantOf
<1>. QED BY <1>1, <1>2, WroteKeeps DEF PrintFanStatus

\* A crash on sscanf(nullptr) writes nothing.
LEMMA CrashStep ==
    ASSUME IInv, Crash
    PROVE  IInv'
BY DEF Crash, IInv, DrvInv, TokInv, OutInv, PrintsLastRead

\* print_i8k_cpu_temp shows the temperature of the line; its garbage branch
\* is reached only without a successful read.
LEMMA CpuStep ==
    ASSUME DriverFormat, IInv, PrintCpuTemp
    PROVE  IInv'
<1>. DEFINE t == tok["cpu_temp"]
<1>1. "cpu_temp" \in Used /\ "cpu_temp" \in Fields
    BY DEF PrintCpuTemp, Fields, FieldNames
<1>2. ASSUME lastRead # NoFile
      PROVE  /\ t.s \in DOMAIN Num
             /\ Num[t.s] = Meant(lastRead, "cpu_temp")
    <2>1. /\ DriverLine(lastRead)
          /\ t = [s |-> lastRead[Pos("cpu_temp")], nl |-> Pos("cpu_temp") = 10,
                   null |-> FALSE]
        BY <1>1, <1>2, TokOf DEF IInv
    <2>2. lastRead[Pos("cpu_temp")] \in DOMAIN Num
        BY <2>1 DEF DriverLine, NumFields
    <2>. QED BY <1>1, <2>1, <2>2, MeantOf
<1>3. CASE t.null
    BY <1>3, CrashStep DEF PrintCpuTemp
<1>4. CASE ~t.null /\ t.s \in DOMAIN Num
    BY <1>1, <1>2, <1>4, WroteKeeps DEF PrintCpuTemp
<1>5. CASE ~t.null /\ t.s \notin DOMAIN Num
    <2>1. PICK g \in Garbage : Wrote("cpu_temp", g)
        BY <1>5 DEF PrintCpuTemp
    <2>. QED BY <1>1, <1>2, <1>5, <2>1, WroteKeeps
<1>. QED BY <1>3, <1>4, <1>5

\* print_i8k_ac_status shows the word of the line's AC status.
LEMMA AcStep ==
    ASSUME DriverFormat, IInv, PrintAcStatus
    PROVE  IInv'
<1>. DEFINE t == tok["ac_status"]
<1>1. "ac_status" \in Used /\ "ac_status" \in Fields
    BY DEF PrintAcStatus, Fields, FieldNames
<1>2. ASSUME lastRead # NoFile
      PROVE  /\ t.s \in DOMAIN Num
             /\ AcWord(Num[t.s]) = Meant(lastRead, "ac_status")
    <2>1. /\ DriverLine(lastRead)
          /\ t = [s |-> lastRead[Pos("ac_status")], nl |-> Pos("ac_status") = 10,
                   null |-> FALSE]
        BY <1>1, <1>2, TokOf DEF IInv
    <2>2. lastRead[Pos("ac_status")] \in DOMAIN Num
        BY <2>1 DEF DriverLine, NumFields
    <2>. QED BY <1>1, <2>1, <2>2, MeantOf
<1>3. CASE t.null
    BY <1>3, CrashStep DEF PrintAcStatus
<1>4. CASE ~t.null /\ t.s \in DOMAIN Num
    BY <1>1, <1>2, <1>4, WroteKeeps DEF PrintAcStatus
<1>5. CASE ~t.null /\ t.s \notin DOMAIN Num
    <2>1. PICK g \in Garbage : Wrote("ac_status", AcWord(g))
        BY <1>5 DEF PrintAcStatus
    <2>. QED BY <1>1, <1>2, <1>5, <2>1, WroteKeeps
<1>. QED BY <1>3, <1>4, <1>5

\* A string printer shows its field, with no newline since it is not the
\* last one.
LEMMA StringStep ==
    ASSUME DriverFormat, IInv, NEW f \in StringFields, PrintString(f)
    PROVE  IInv'
<1>1. f \in Used /\ f \in Fields /\ f # "buttons_status"
    BY DEF PrintString, DriverFormat, StringFields, Fields, FieldNames
<1>2. ASSUME lastRead # NoFile
      PROVE  StrWord(tok[f]) = Meant(lastRead, f)
    <2>1. tok[f] = [s |-> lastRead[Pos(f)], nl |-> Pos(f) = 10, null |-> FALSE]
        BY <1>1, <1>2, TokOf DEF IInv
    <2>2. Pos(f) # 10
        BY <1>1, PosFacts
    <2>5. tok[f].null = FALSE /\ tok[f].s = lastRead[Pos(f)]
        BY <2>1
    <2>6. tok[f].nl = (Pos(f) = 10)
        BY <2>1
    <2>3. ~tok[f].null /\ ~tok[f].nl /\ tok[f].s = lastRead[Pos(f)]
        BY <2>2, <2>5, <2>6
    <2>4. StrWord(tok[f]) = lastRead[Pos(f)]
        BY <2>3, Zenon DEF StrWord
    <2>. QED BY <1>1, <2>4, MeantOf
<1>. QED BY <1>1, <1>2, WroteKeeps DEF PrintString

\* The driver changing its line touches nothing a printer shows.
LEMMA DriverStep ==
    ASSUME IInv, NEW l \in Lines \cup {NoFile}, DriverChange(l)
    PROVE  IInv'
BY DEF DriverChange, IInv, DrvInv, TokInv, OutInv, PrintsLastRead

\* update_i8k points the fields at the tokens of the line it read, or
\* leaves none after a failed fread; no printer's output changes.
LEMMA UpdateStep ==
    ASSUME IInv, UpdateI8k
    PROVE  IInv'
<1>1. TokInv'
    <2>1. CASE drv = NoFile
        BY <2>1 DEF UpdateI8k, IInv, TokInv
    <2>2. CASE drv # NoFile
        <3>1. drv \in Lines
            BY <2>2 DEF IInv, DrvInv
        <3>. QED BY <2>2, <3>1 DEF UpdateI8k, TokInv
    <2>. QED BY <2>1, <2>2
<1>2. (DrvInv /\ OutInv /\ PrintsLastRead)'
    BY DEF UpdateI8k, IInv, DrvInv, OutInv, PrintsLastRead
<1>. QED BY <1>1, <1>2 DEF IInv

\* Every step of the reader keeps the invariant.
LEMMA NextIInv ==
    ASSUME DriverFormat, IInv, [Next]_vars
    PROVE  IInv'
<1>1. CASE \E l \in Lines \cup {NoFile} : DriverChange(l)
    BY <1>1, DriverStep
<1>2. CASE UpdateI8k
    BY <1>2, UpdateStep
<1>3. CASE \E f \in FanFields : PrintFanStatus(f)
    BY <1>3, FanStep
<1>4. CASE PrintCpuTemp
    BY <1>4, CpuStep
<1>5. CASE PrintAcStatus
    BY <1>5, AcStep
<1>6. CASE \E f \in StringFields : PrintString(f)
    BY <1>6, StringStep
<1>7. CASE UNCHANGED vars
    BY <1>7 DEF vars, IInv, DrvInv, TokInv, OutInv, PrintsLastRead
<1>. QED BY <1>1, <1>2, <1>3, <1>4, <1>5, <1>6, <1>7 DEF Next

-----------------------------------------------------------------------------
\* For every driver that writes its lines in the dell-smm format and every
\* configuration without ${i8k_buttons_status}: each ${i8k_*} variable
\* shows what the driver meant by its own field of the line update_i8k read
\* last, whatever loads, unloads, failed freads and updates came between.
THEOREM PrintsLastReadCorrect ==
    ASSUME DriverFormat
    PROVE  Spec => []PrintsLastRead
<1>1. Init => IInv
    BY InitIInv
<1>2. IInv /\ [Next]_vars => IInv'
    BY NextIInv
<1>3. IInv => PrintsLastRead
    BY DEF IInv
<1>. QED BY <1>1, <1>2, <1>3, PTL DEF Spec

=============================================================================
