------------------------- MODULE DesktopCache_proofs -------------------------
(***************************************************************************)
(* Proofs about the desktop-state cache, for every value of the constants *)
(* that satisfies DesktopCacheAssumptions: the type invariant, and        *)
(* CacheFresh, the statement that a handled property is cached with its   *)
(* root value.  CacheFresh is inductive relative to TypeOK, so it needs no *)
(* strengthening beyond the type invariant.                               *)
(***************************************************************************)
EXTENDS DesktopCache, FiniteSetTheorems, SequenceTheorems, TLAPS

-----------------------------------------------------------------------------
(* Lemmas about the operators the model is built from.                     *)

\* 1..n has n elements.
LEMMA IntervalCard ==
    ASSUME NEW n \in Nat
    PROVE  IsFiniteSet(1..n) /\ Cardinality(1..n) = n
BY FS_Interval

\* The name that get_x11_desktop_current_name copies out of a name list is
\* itself a byte string: it lies between position 1 and the k-th NUL.
LEMMA SegmentType ==
    ASSUME NEW s \in Seq(Bytes), NEW k \in Int, HasSegment(s, k)
    PROVE  Segment(s, k) \in Seq(Bytes)
<1> DEFINE e == SegEnd(s, k)
           T == {q \in 1..e : s[q] # NUL /\ NulCount(s, q) = k - 1}
<1>1. e \in 1..Len(s) /\ s[e] = NUL
  BY DEF HasSegment, SegEnd
<1>2. T \subseteq 1..(e - 1)
  BY <1>1
<1>3. IsFiniteSet(T) /\ Cardinality(T) <= e - 1
  <2>0. e - 1 \in Nat
    BY <1>1
  <2>1. IsFiniteSet(1..(e - 1)) /\ Cardinality(1..(e - 1)) = e - 1
    BY <2>0, IntervalCard
  <2>2. QED
    BY <1>2, <2>1, FS_Subset
<1>4. Cardinality(T) \in Nat
  BY <1>3, FS_CardinalityType
<1>5. \A i \in (e - Cardinality(T))..(e - 1) : s[i] \in Bytes
  BY <1>1, <1>3, <1>4
<1>6. SubSeq(s, e - Cardinality(T), e - 1) \in Seq(Bytes)
  BY <1>1, <1>4, <1>5, SubSeqProperties
<1>7. QED
  BY <1>6 DEF Segment, SegLen

\* The derived current name is a byte string whenever the list and the
\* previous name are.
LEMMA CurrentNameType ==
    \A s \in Seq(Bytes), k \in Int, old \in Seq(Bytes) :
        CurrentName(s, k, old) \in Seq(Bytes)
BY SegmentType DEF CurrentName

\* The set of queued atoms grows by the appended atom ...
LEMMA AppendElems ==
    ASSUME NEW S, NEW s \in Seq(S), NEW x \in S
    PROVE  {Append(s, x)[i] : i \in 1..Len(Append(s, x))}
             = {s[i] : i \in 1..Len(s)} \cup {x}
<1>1. Len(Append(s, x)) = Len(s) + 1
  OBVIOUS
<1>2. \A i \in 1..Len(s) : Append(s, x)[i] = s[i]
  OBVIOUS
<1>3. Append(s, x)[Len(s) + 1] = x
  OBVIOUS
<1>4. QED
  BY <1>1, <1>2, <1>3

\* ... and loses at most its head when the oldest event is handled.
LEMMA TailElems ==
    ASSUME NEW S, NEW s \in Seq(S), s # << >>
    PROVE  {s[i] : i \in 1..Len(s)}
             \subseteq {Tail(s)[i] : i \in 1..Len(Tail(s))} \cup {Head(s)}
<1>1. Len(Tail(s)) = Len(s) - 1 /\ \A i \in 1..Len(s) - 1 : Tail(s)[i] = s[i + 1]
  BY HeadTailProperties
<1>2. ASSUME NEW i \in 2..Len(s)
      PROVE  s[i] \in {Tail(s)[j] : j \in 1..Len(Tail(s))}
  <2>1. i - 1 \in 1..Len(Tail(s)) /\ Tail(s)[i - 1] = s[i]
    BY <1>1
  <2>2. QED
    BY <2>1
<1>3. QED
  BY <1>2

-----------------------------------------------------------------------------
(* Type correctness.                                                       *)

\* The decoders of the three reads keep their fields in range.
LEMMA ReadCurrentType ==
    ASSUME TypeOK, NEW old \in 1..256
    PROVE  ReadCurrent(old) \in 1..256
<1>1. CASE srvCurrent # Bad
  <2>1. srvCurrent \in Nat
    BY <1>1, DesktopCacheAssumptions DEF TypeOK
  <2>2. QED
    BY <1>1, <2>1 DEF ReadCurrent, LowByte
<1>2. QED
  BY <1>1 DEF ReadCurrent

LEMMA ReadNumberType ==
    ASSUME TypeOK, NEW old \in Nat
    PROVE  ReadNumber(old) \in Nat
<1>1. CASE srvNumber # Bad
  <2>1. srvNumber \in Nat
    BY <1>1, DesktopCacheAssumptions DEF TypeOK
  <2>2. QED
    BY <1>1, <2>1 DEF ReadNumber, LowByte
<1>2. QED
  BY <1>1 DEF ReadNumber

LEMMA ReadNamesType ==
    ASSUME TypeOK, NEW old \in Seq(Bytes)
    PROVE  ReadNames(old) \in Seq(Bytes)
<1>1. srvNames # Bad => srvNames \in Seq(Bytes)
  BY DesktopCacheAssumptions DEF TypeOK
<1>2. QED
  BY <1>1 DEF ReadNames

LEMMA InitTypeOK == Init => TypeOK
BY DesktopCacheAssumptions DEF Init, TypeOK, Props

LEMMA NextTypeOK == TypeOK /\ [Next]_vars => TypeOK'
<1> SUFFICES ASSUME TypeOK, [Next]_vars PROVE TypeOK'
  OBVIOUS
<1>1. ASSUME NEW v \in CardVals \cup {Bad}, WMSetCurrent(v) PROVE TypeOK'
  BY <1>1, DesktopCacheAssumptions DEF WMSetCurrent, Notify, TypeOK, cacheVars, Props
<1>2. ASSUME NEW v \in CardVals \cup {Bad}, WMSetNumber(v) PROVE TypeOK'
  BY <1>2, DesktopCacheAssumptions DEF WMSetNumber, Notify, TypeOK, cacheVars, Props
<1>3. ASSUME NEW v \in NameLists \cup {Bad}, WMSetNames(v) PROVE TypeOK'
  BY <1>3, DesktopCacheAssumptions DEF WMSetNames, Notify, TypeOK, cacheVars, Props
<1>4. CASE InitX11
  <2>1. current' \in 1..256 /\ number' \in Nat
    <3>1. 1 \in 1..256 /\ 1 \in Nat
      OBVIOUS
    <3>2. ReadCurrent(1) \in 1..256 /\ ReadNumber(1) \in Nat
      BY <3>1, ReadCurrentType, ReadNumberType
    <3>3. QED
      BY <1>4, <3>1, <3>2 DEF InitX11
  <2>2. allNames' \in Seq(Bytes)
    <3>1. << >> \in Seq(Bytes)
      OBVIOUS
    <3>2. QED
      BY <1>4, <3>1, ReadNamesType DEF InitX11
  <2>3. name' \in Seq(Bytes)
    <3>0. << >> \in Seq(Bytes)
      OBVIOUS
    <3>1. current' \in Int
      BY <2>1
    <3>2. CurrentName(allNames', current', << >>) \in Seq(Bytes)
      BY <2>2, <3>0, <3>1, CurrentNameType, Zenon
    <3>3. QED
      BY <1>4, <3>2 DEF InitX11
  <2>4. QED
    BY <1>4, <2>1, <2>2, <2>3 DEF InitX11, TypeOK, srvVars
<1>5. CASE SelectRootPropertyMask
  BY <1>5 DEF SelectRootPropertyMask, TypeOK, srvVars, cacheVars
<1>6. CASE HandleCurrent
  <2>1. current' \in 1..256
    BY <1>6, ReadCurrentType DEF HandleCurrent, TypeOK
  <2>2. name' \in Seq(Bytes)
    BY <1>6, <2>1, CurrentNameType DEF HandleCurrent, TypeOK
  <2>3. pending' \in Seq(Props)
    BY <1>6, HeadTailProperties DEF HandleCurrent, TypeOK
  <2>4. QED
    BY <1>6, <2>1, <2>2, <2>3 DEF HandleCurrent, TypeOK, srvVars
<1>7. CASE HandleNumber
  <2>1. number' \in Nat
    BY <1>7, ReadNumberType DEF HandleNumber, TypeOK
  <2>2. pending' \in Seq(Props)
    BY <1>7, HeadTailProperties DEF HandleNumber, TypeOK
  <2>3. QED
    BY <1>7, <2>1, <2>2 DEF HandleNumber, TypeOK, srvVars
<1>8. CASE HandleNames
  <2>1. allNames' \in Seq(Bytes)
    BY <1>8, ReadNamesType DEF HandleNames, TypeOK
  <2>2. name' \in Seq(Bytes)
    BY <1>8, <2>1, CurrentNameType DEF HandleNames, TypeOK
  <2>3. pending' \in Seq(Props)
    BY <1>8, HeadTailProperties DEF HandleNames, TypeOK
  <2>4. QED
    BY <1>8, <2>1, <2>2, <2>3 DEF HandleNames, TypeOK, srvVars
<1>9. CASE HandleOther
  <2>1. pending' \in Seq(Props)
    BY <1>9, HeadTailProperties DEF HandleOther, TypeOK
  <2>2. QED
    BY <1>9, <2>1 DEF HandleOther, TypeOK, srvVars, cacheVars
<1>10. CASE UNCHANGED vars
  BY <1>10 DEF vars, TypeOK
<1>11. QED
  BY <1>1, <1>2, <1>3, <1>4, <1>5, <1>6, <1>7, <1>8, <1>9, <1>10 DEF Next

\* The cache, the server properties, the queue and the atoms always have
\* the shapes the code gives them; in particular the cached current desktop
\* stays in 1..256 whatever the WM writes, and the derived name is a byte
\* string of the name list.
THEOREM TypeCorrect == Spec => []TypeOK
BY InitTypeOK, NextTypeOK, PTL DEF Spec

-----------------------------------------------------------------------------
(* Freshness of the cache.                                                 *)

\* A WM write that conky will hear of, or has missed, leaves every other
\* property fresh: the written property is queued or recorded as missed.
LEMMA NotifyExempts ==
    ASSUME TypeOK, NEW q \in Props, Notify(q), phase' = phase, phase # "down"
    PROVE  /\ q \in PendingSet' \cup missed'
           /\ PendingSet \cup missed \subseteq PendingSet' \cup missed'
<1>1. CASE phase = "up"
  <2>1. pending' = Append(pending, q) /\ missed' = missed
    BY <1>1 DEF Notify
  <2>2. pending \in Seq(Props)
    BY DEF TypeOK
  <2>3. {Append(pending, q)[i] : i \in 1..Len(Append(pending, q))}
          = PendingSet \cup {q}
    BY <2>2, AppendElems DEF PendingSet
  <2>4. PendingSet' = PendingSet \cup {q}
    BY <2>1, <2>3 DEF PendingSet
  <2>5. QED
    BY <2>1, <2>4
<1>2. CASE phase = "reading"
  BY <1>2 DEF Notify, PendingSet
<1>3. QED
  BY <1>1, <1>2 DEF TypeOK

\* Fresh(p) depends only on the root value of p and its cached field.
LEMMA FreshUnchanged ==
    ASSUME NEW p \in Props,
           p = "current" => UNCHANGED <<srvCurrent, current>>,
           p = "number" => UNCHANGED <<srvNumber, number>>,
           p = "names" => UNCHANGED <<srvNames, allNames>>
    PROVE  Fresh(p)' <=> Fresh(p)
BY DEF Fresh, Props

LEMMA InitCacheFresh == Init => CacheFresh
BY DEF Init, CacheFresh

LEMMA NextCacheFresh == TypeOK /\ CacheFresh /\ [Next]_vars => CacheFresh'
<1> SUFFICES ASSUME TypeOK, CacheFresh, [Next]_vars,
                    phase' # "down", Resolved',
                    NEW p \in Props \ (PendingSet' \cup missed')
             PROVE  Fresh(p)'
  BY DEF CacheFresh
<1>1. ASSUME NEW v \in CardVals \cup {Bad}, WMSetCurrent(v) PROVE Fresh(p)'
  <2>1. phase # "down" /\ Resolved /\ phase' = phase
    BY <1>1 DEF WMSetCurrent, Resolved
  <2>2. p # "current" /\ p \notin PendingSet \cup missed
    BY <1>1, <2>1, NotifyExempts DEF WMSetCurrent, Props
  <2>3. Fresh(p)
    BY <2>1, <2>2 DEF CacheFresh
  <2>4. QED
    BY <1>1, <2>2, <2>3, FreshUnchanged DEF WMSetCurrent, cacheVars
<1>2. ASSUME NEW v \in CardVals \cup {Bad}, WMSetNumber(v) PROVE Fresh(p)'
  <2>1. phase # "down" /\ Resolved /\ phase' = phase
    BY <1>2 DEF WMSetNumber, Resolved
  <2>2. p # "number" /\ p \notin PendingSet \cup missed
    BY <1>2, <2>1, NotifyExempts DEF WMSetNumber, Props
  <2>3. Fresh(p)
    BY <2>1, <2>2 DEF CacheFresh
  <2>4. QED
    BY <1>2, <2>2, <2>3, FreshUnchanged DEF WMSetNumber, cacheVars
<1>3. ASSUME NEW v \in NameLists \cup {Bad}, WMSetNames(v) PROVE Fresh(p)'
  <2>1. phase # "down" /\ Resolved /\ phase' = phase
    BY <1>3 DEF WMSetNames, Resolved
  <2>2. p # "names" /\ p \notin PendingSet \cup missed
    BY <1>3, <2>1, NotifyExempts DEF WMSetNames, Props
  <2>3. Fresh(p)
    BY <2>1, <2>2 DEF CacheFresh
  <2>4. QED
    BY <1>3, <2>2, <2>3, FreshUnchanged DEF WMSetNames, cacheVars
<1>4. CASE InitX11
  \* Resolved atoms mean the atoms existed, and then all three were read.
  <2>1. atomsExist
    BY <1>4, DesktopCacheAssumptions DEF InitX11, Resolved, Props
  <2>2. /\ current' = ReadCurrent(1)
        /\ number' = ReadNumber(1)
        /\ allNames' = ReadNames(<< >>)
        /\ UNCHANGED srvVars
    BY <1>4, <2>1 DEF InitX11
  <2>3. QED
    BY <2>2 DEF Fresh, ReadCurrent, ReadNumber, ReadNames, srvVars
<1>5. CASE SelectRootPropertyMask
  <2>1. phase # "down" /\ Resolved
    BY <1>5 DEF SelectRootPropertyMask, Resolved
  <2>2. p \notin PendingSet \cup missed
    BY <1>5 DEF SelectRootPropertyMask, PendingSet
  <2>3. Fresh(p)
    BY <2>1, <2>2 DEF CacheFresh
  <2>4. QED
    BY <1>5, <2>3, FreshUnchanged DEF SelectRootPropertyMask, srvVars,
                                      cacheVars
<1>6. CASE HandleCurrent
  <2>1. phase # "down" /\ Resolved /\ Head(pending) = "current"
    BY <1>6 DEF HandleCurrent, Resolved, Props
  <2>2. PendingSet \subseteq PendingSet' \cup {"current"}
    BY <1>6, <2>1, TailElems DEF HandleCurrent, PendingSet, TypeOK
  <2>3. CASE p = "current"
    BY <1>6, <2>3 DEF HandleCurrent, Fresh, ReadCurrent, srvVars
  <2>4. CASE p # "current"
    <3>1. Fresh(p)
      BY <1>6, <2>1, <2>2, <2>4 DEF HandleCurrent, CacheFresh
    <3>2. QED
      BY <1>6, <2>4, <3>1, FreshUnchanged DEF HandleCurrent, srvVars
  <2>5. QED
    BY <2>3, <2>4
<1>7. CASE HandleNumber
  <2>1. phase # "down" /\ Resolved /\ Head(pending) = "number"
    BY <1>7 DEF HandleNumber, Resolved, Props
  <2>2. PendingSet \subseteq PendingSet' \cup {"number"}
    BY <1>7, <2>1, TailElems DEF HandleNumber, PendingSet, TypeOK
  <2>3. CASE p = "number"
    BY <1>7, <2>3 DEF HandleNumber, Fresh, ReadNumber, srvVars
  <2>4. CASE p # "number"
    <3>1. Fresh(p)
      BY <1>7, <2>1, <2>2, <2>4 DEF HandleNumber, CacheFresh
    <3>2. QED
      BY <1>7, <2>4, <3>1, FreshUnchanged DEF HandleNumber, srvVars
  <2>5. QED
    BY <2>3, <2>4
<1>8. CASE HandleNames
  <2>1. phase # "down" /\ Resolved /\ Head(pending) = "names"
    BY <1>8 DEF HandleNames, Resolved, Props
  <2>2. PendingSet \subseteq PendingSet' \cup {"names"}
    BY <1>8, <2>1, TailElems DEF HandleNames, PendingSet, TypeOK
  <2>3. CASE p = "names"
    BY <1>8, <2>3 DEF HandleNames, Fresh, ReadNames, srvVars
  <2>4. CASE p # "names"
    <3>1. Fresh(p)
      BY <1>8, <2>1, <2>2, <2>4 DEF HandleNames, CacheFresh
    <3>2. QED
      BY <1>8, <2>4, <3>1, FreshUnchanged DEF HandleNames, srvVars
  <2>5. QED
    BY <2>3, <2>4
<1>9. CASE HandleOther
  \* With resolved atoms every queued atom is one of the cached ones.
  <2>1. Resolved /\ Head(pending) \in Props
    BY <1>9, HeadTailProperties DEF HandleOther, Resolved, TypeOK
  <2>2. QED
    BY <1>9, <2>1 DEF HandleOther, Resolved
<1>10. CASE UNCHANGED vars
  <2>1. phase # "down" /\ Resolved /\ p \notin PendingSet \cup missed
    BY <1>10 DEF vars, Resolved, PendingSet
  <2>2. QED
    BY <1>10, <2>1, FreshUnchanged DEF vars, CacheFresh
<1>11. QED
  BY <1>1, <1>2, <1>3, <1>4, <1>5, <1>6, <1>7, <1>8, <1>9, <1>10 DEF Next

\* Once init_x11 has read the desktop properties with resolved atoms, every
\* property with no PropertyNotify queued for it, and not written in the
\* window between the reads and the selection of PropertyChangeMask, is
\* cached with the value the WM last wrote (as the code decodes it): the
\* handlers of get_x11_desktop_info never read the wrong property nor lose
\* a write they were notified of.
THEOREM CacheFreshCorrect == Spec => []CacheFresh
BY TypeCorrect, InitCacheFresh, NextCacheFresh, PTL DEF Spec

-----------------------------------------------------------------------------
(* The cached current name.                                                *)

\* A step that re-derives the name leaves it derived; one that leaves the
\* list, the index and the name alone keeps it derived.
LEMMA DerivedByCurrentName ==
    ASSUME NEW old, name' = CurrentName(allNames', current', old)
    PROVE  NameDerived'
BY DEF CurrentName, NameDerived

LEMMA InitNameDerived == Init => NameDerived
BY DEF Init, NameDerived, HasSegment

LEMMA NextNameDerived == NameDerived /\ [Next]_vars => NameDerived'
<1> SUFFICES ASSUME NameDerived, [Next]_vars PROVE NameDerived'
  OBVIOUS
<1>1. CASE UNCHANGED <<current, allNames, name>>
  BY <1>1 DEF NameDerived
<1>2. CASE InitX11
  BY <1>2, DerivedByCurrentName DEF InitX11
<1>3. CASE HandleCurrent
  BY <1>3, DerivedByCurrentName DEF HandleCurrent
<1>4. CASE HandleNames
  BY <1>4, DerivedByCurrentName DEF HandleNames
<1>5. QED
  BY <1>1, <1>2, <1>3, <1>4
     DEF Next, WMSetCurrent, WMSetNumber, WMSetNames, SelectRootPropertyMask,
         HandleNumber, HandleOther, vars, cacheVars

\* info.x11.desktop.name is always the name that all_names gives the cached
\* current desktop, whenever the list holds one for it: init_x11 and the
\* handlers of _NET_CURRENT_DESKTOP and _NET_DESKTOP_NAMES re-derive it after
\* every change of either field, and no other step touches the three.
THEOREM NameDerivedCorrect == Spec => []NameDerived
BY InitNameDerived, NextNameDerived, PTL DEF Spec

-----------------------------------------------------------------------------
(* Refinement of DesktopCacheAbstract.                                     *)

\* Before init_x11 the cache holds the values it was reset to and no event
\* is queued; while the WM has interned no desktop atom, no desktop
\* property exists on the root.
DownBlank ==
    phase = "down" =>
        current = 1 /\ number = 1 /\ allNames = << >> /\ pending = << >>
NoAtomsBad ==
    ~atomsExist => srvCurrent = Bad /\ srvNumber = Bad /\ srvNames = Bad
RInv == DownBlank /\ NoAtomsBad

LEMMA InitRInv == Init => RInv
BY DEF Init, RInv, DownBlank, NoAtomsBad

LEMMA NextRInv == RInv /\ [Next]_vars => RInv'
<1>. SUFFICES ASSUME RInv, [Next]_vars PROVE RInv'
    OBVIOUS
<1>1. ASSUME NEW v, WMSetCurrent(v) \/ WMSetNumber(v) \/ WMSetNames(v)
      PROVE  RInv'
    \* A write interns the atoms, and queues nothing before init_x11.
    BY <1>1 DEF WMSetCurrent, WMSetNumber, WMSetNames, Notify, cacheVars,
                RInv, DownBlank, NoAtomsBad
<1>2. CASE InitX11
    BY <1>2 DEF InitX11, srvVars, RInv, DownBlank, NoAtomsBad
<1>3. CASE SelectRootPropertyMask \/ HandleOther
    BY <1>3 DEF SelectRootPropertyMask, HandleOther, srvVars, cacheVars,
                RInv, DownBlank, NoAtomsBad
<1>4. CASE HandleCurrent \/ HandleNumber \/ HandleNames
    \* A handler takes a queued event, so conky is past init_x11.
    BY <1>4 DEF HandleCurrent, HandleNumber, HandleNames, srvVars,
                RInv, DownBlank, NoAtomsBad
<1>5. CASE UNCHANGED vars
    BY <1>5 DEF vars, RInv, DownBlank, NoAtomsBad
<1>. QED BY <1>1, <1>2, <1>3, <1>4, <1>5 DEF Next

\* The root and the cache the abstract specification sees.
RootBar == [current |-> srvCurrent, number |-> srvNumber, names |-> srvNames]
CacheBar == [current |-> current, number |-> number, names |-> allNames]

\* A step that re-reads the properties of P, each as the code decodes it,
\* is an abstract refresh of P.
LEMMA RefreshStep ==
    ASSUME NEW P \in SUBSET Props, UNCHANGED <<srvCurrent, srvNumber, srvNames>>,
           current' = IF "current" \in P THEN Decoded("current", srvCurrent, current)
                                         ELSE current,
           number' = IF "number" \in P THEN Decoded("number", srvNumber, number)
                                       ELSE number,
           allNames' = IF "names" \in P THEN Decoded("names", srvNames, allNames)
                                        ELSE allNames
    PROVE  AbstractCache!Refresh(P)
<1>1. /\ RootBar["current"] = srvCurrent /\ RootBar["number"] = srvNumber
      /\ RootBar["names"] = srvNames
      /\ CacheBar["current"] = current /\ CacheBar["number"] = number
      /\ CacheBar["names"] = allNames
      /\ DOMAIN CacheBar' = Props
    BY DEF RootBar, CacheBar, Props
<1>2. \A p \in Props :
          CacheBar'[p] = IF p \in P THEN Decoded(p, RootBar[p], CacheBar[p])
                                    ELSE CacheBar[p]
    BY <1>1 DEF CacheBar, Props
<1>3. CacheBar' = [p \in Props |-> IF p \in P
                     THEN Decoded(p, RootBar[p], CacheBar[p])
                     ELSE CacheBar[p]]
    BY <1>1, <1>2 DEF CacheBar
<1>. QED BY <1>3 DEF AbstractCache!Refresh, CacheBar, RootBar

\* The reads of the code decode each property as Decoded does.
LEMMA DecodedReads ==
    ASSUME NEW old
    PROVE  /\ Decoded("current", srvCurrent, old) = ReadCurrent(old)
           /\ Decoded("number", srvNumber, old) = ReadNumber(old)
           /\ Decoded("names", srvNames, old) = ReadNames(old)
BY Zenon DEF Decoded, ReadCurrent, ReadNumber, ReadNames

LEMMA InitRefines == Init => AbstractCache!Init
BY DesktopCacheAssumptions DEF Init, AbstractCache!Init

LEMMA NextRefines ==
    TypeOK /\ RInv /\ [Next]_vars => [AbstractCache!Next]_AbstractCache!absVars
<1>. SUFFICES ASSUME TypeOK, RInv, [Next]_vars
              PROVE  [AbstractCache!Next]_AbstractCache!absVars
    OBVIOUS
<1>1. ASSUME NEW v \in CardVals \cup {Bad}, WMSetCurrent(v)
      PROVE  AbstractCache!Write("current", v)
    BY <1>1 DEF WMSetCurrent, cacheVars, AbstractCache!Write
<1>2. ASSUME NEW v \in CardVals \cup {Bad}, WMSetNumber(v)
      PROVE  AbstractCache!Write("number", v)
    BY <1>2 DEF WMSetNumber, cacheVars, AbstractCache!Write
<1>3. ASSUME NEW v \in NameLists \cup {Bad}, WMSetNames(v)
      PROVE  AbstractCache!Write("names", v)
    BY <1>3 DEF WMSetNames, cacheVars, AbstractCache!Write
<1>4. CASE InitX11
    \* init_x11 reads all three from the reset cache; with no atoms on the
    \* server every property is absent and the reset values stay.
    <2>1. current = 1 /\ number = 1 /\ allNames = << >>
        BY <1>4 DEF InitX11, RInv, DownBlank
    <2>2. /\ current' = Decoded("current", srvCurrent, current)
          /\ number' = Decoded("number", srvNumber, number)
          /\ allNames' = Decoded("names", srvNames, allNames)
          /\ UNCHANGED <<srvCurrent, srvNumber, srvNames>>
        <3>1. CASE atomsExist
            BY <1>4, <2>1, <3>1, DecodedReads DEF InitX11, srvVars
        <3>2. CASE ~atomsExist
            BY <1>4, <2>1, <3>2 DEF InitX11, srvVars, Decoded, RInv, NoAtomsBad
        <3>. QED BY <3>1, <3>2
    <2>3. AbstractCache!Refresh(Props)
        <3>1. Props \in SUBSET Props
            OBVIOUS
        <3>. QED BY <2>2, <3>1, RefreshStep DEF Props
    <2>. QED BY <2>3 DEF AbstractCache!Next
<1>5. CASE HandleCurrent
    <2>1. /\ current' = Decoded("current", srvCurrent, current)
          /\ UNCHANGED <<number, allNames, srvCurrent, srvNumber, srvNames>>
        BY <1>5, DecodedReads DEF HandleCurrent, srvVars
    <2>2. AbstractCache!Refresh({"current"})
        BY <2>1, RefreshStep DEF Props
    <2>. QED BY <2>2 DEF AbstractCache!Next, Props
<1>6. CASE HandleNumber
    <2>1. /\ number' = Decoded("number", srvNumber, number)
          /\ UNCHANGED <<current, allNames, srvCurrent, srvNumber, srvNames>>
        BY <1>6, DecodedReads DEF HandleNumber, srvVars
    <2>2. AbstractCache!Refresh({"number"})
        BY <2>1, RefreshStep DEF Props
    <2>. QED BY <2>2 DEF AbstractCache!Next, Props
<1>7. CASE HandleNames
    <2>1. /\ allNames' = Decoded("names", srvNames, allNames)
          /\ UNCHANGED <<current, number, srvCurrent, srvNumber, srvNames>>
        BY <1>7, DecodedReads DEF HandleNames, srvVars
    <2>2. AbstractCache!Refresh({"names"})
        BY <2>1, RefreshStep DEF Props
    <2>. QED BY <2>2 DEF AbstractCache!Next, Props
<1>8. CASE SelectRootPropertyMask \/ HandleOther \/ UNCHANGED vars
    BY <1>8 DEF SelectRootPropertyMask, HandleOther, srvVars, cacheVars, vars,
                AbstractCache!absVars
<1>. QED BY <1>1, <1>2, <1>3, <1>4, <1>5, <1>6, <1>7, <1>8
         DEF Next, AbstractCache!Next, Props

\* conky's desktop cache implements DesktopCacheAbstract under the mapping
\* of AbstractCache: init_x11 and every handler of get_x11_desktop_info
\* change the cached fields only by re-reading properties from the root as
\* it is at that step and decoding them, for every set of values the WM may
\* write.
THEOREM RefinesAbstractCache == Spec => ImplementsAbstractCache
<1>1. Spec => [](TypeOK /\ RInv)
    BY TypeCorrect, InitRInv, NextRInv, PTL DEF Spec
<1>. QED BY <1>1, InitRefines, NextRefines, PTL
         DEF Spec, ImplementsAbstractCache, AbstractCache!Spec

=============================================================================
