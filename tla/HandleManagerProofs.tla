------------------------- MODULE HandleManagerProofs -------------------------
(***************************************************************************)
(* The properties of HandleManager, for every set of contexts and every    *)
(* largest int.  HMTypeOK, HandlesPartition and TableOwnsHeap are          *)
(* inductive together and not one by one: that a recycled number is not in *)
(* use needs the partition, that the partition survives a pop needs the    *)
(* freed numbers to be distinct.                                           *)
(***************************************************************************)
EXTENDS HandleManager, QueueLemmas

HMInv == HMTypeOK /\ HandlesPartition /\ TableOwnsHeap

\* What NewHandle hands out is a number, and one that nobody has.
LEMMA NewHandleResultFacts ==
    ASSUME HMInv, NewHandleResult # 0
    PROVE  /\ NewHandleResult \in 1..(MaxInt - 1)
           /\ NewHandleResult \notin DOMAIN used_handles
<1> USE MaxIntAssumption DEF HMInv
<1>1. CASE freed_handles # << >>
  <2>1. /\ Top(freed_handles) \in 1..(MaxInt - 1)
        /\ Top(freed_handles) \in Range(freed_handles)
    BY <1>1, FrontItems DEF HMTypeOK, Top
  <2> QED BY <1>1, <2>1 DEF HandlesPartition, NewHandleResult
<1>2. CASE freed_handles = << >>
  <2>1. NewHandleResult = next_handle /\ next_handle # MaxInt
    BY <1>2 DEF NewHandleResult
  <2> QED BY <2>1 DEF HMTypeOK, HandlesPartition
<1> QED BY <1>1, <1>2

\* NewHandle (with the allocation in CurlNew) preserves the invariant.
LEMMA NewPreserves ==
    ASSUME HMInv, ~cleaned, NEW c \in Contexts, New(c)
    PROVE  HMInv'
<1> USE MaxIntAssumption DEF HMInv
<1>0. PICK h : h = NewHandleResult
  OBVIOUS
<1>1. /\ h # 0 /\ used_handles' = Insert(used_handles, h, c)
      /\ cleaned' = cleaned /\ heap' = heap \cup {c} /\ c \notin heap
  BY <1>0 DEF New, NewHandle
<1>2. h \in 1..(MaxInt - 1) /\ h \notin DOMAIN used_handles
  BY <1>0, <1>1, NewHandleResultFacts
<1>3. IsInjective(used_handles) /\ heap = Range(used_handles)
  BY DEF TableOwnsHeap, Pointers
<1>4. /\ DOMAIN used_handles' = DOMAIN used_handles \cup {h}
      /\ used_handles'[h] = c
      /\ \A k \in DOMAIN used_handles : used_handles'[k] = used_handles[k]
      /\ Range(used_handles') = Range(used_handles) \cup {c}
      /\ IsInjective(used_handles')
  <2>1. h \notin DOMAIN used_handles /\ c \notin Range(used_handles)
    BY <1>1, <1>2, <1>3
  <2>2. /\ DOMAIN used_handles' = DOMAIN used_handles \cup {h}
        /\ used_handles'[h] = c
        /\ \A k \in DOMAIN used_handles : used_handles'[k] = used_handles[k]
    BY <1>1, <2>1 DEF Insert
  <2>3. Range(used_handles') = Range(used_handles) \cup {c}
    BY <2>1, <2>2 DEF Range
  <2>4. IsInjective(used_handles')
    BY <1>3, <2>1, <2>2 DEF IsInjective, Range
  <2> QED BY <2>2, <2>3, <2>4
<1>5. /\ next_handle' \in 1..MaxInt /\ freed_handles' \in Seq(1..(MaxInt - 1))
      /\ DOMAIN used_handles' \cup Range(freed_handles') = 1..(next_handle' - 1)
      /\ DOMAIN used_handles' \cap Range(freed_handles') = {}
      /\ IsInjective(freed_handles')
  <2>1. CASE freed_handles # << >>
    <3>1. freed_handles' = Pop(freed_handles) /\ next_handle' = next_handle
      BY <2>1 DEF New, NewHandle
    <3>2. h = Top(freed_handles)
      BY <1>0, <2>1 DEF NewHandleResult
    <3>3. /\ freed_handles' \in Seq(1..(MaxInt - 1))
          /\ IsInjective(freed_handles')
          /\ Range(freed_handles') = Range(freed_handles) \ {h}
          /\ h \in Range(freed_handles)
      <4>1. freed_handles \in Seq(1..(MaxInt - 1)) /\ IsInjective(freed_handles)
        BY DEF HMTypeOK, HandlesPartition
      <4> QED BY <2>1, <3>1, <3>2, <4>1, FrontItems DEF Top, Pop
    <3> QED BY <1>2, <1>4, <3>1, <3>3 DEF HMTypeOK, HandlesPartition
  <2>2. CASE freed_handles = << >>
    <3>1. freed_handles' = freed_handles /\ next_handle' = next_handle + 1
      BY <2>2 DEF New, NewHandle
    <3>2. h = next_handle /\ next_handle # MaxInt
      BY <1>0, <1>1, <2>2 DEF NewHandleResult
    <3> QED BY <1>2, <1>4, <3>1, <3>2 DEF HMTypeOK, HandlesPartition
  <2> QED BY <2>1, <2>2
<1>6. HMTypeOK'
  BY <1>1, <1>2, <1>4, <1>5 DEF HMTypeOK
<1>7. HandlesPartition'
  BY <1>5 DEF HandlesPartition
<1>8. TableOwnsHeap'
  BY <1>1, <1>3, <1>4 DEF TableOwnsHeap, Pointers
<1> QED BY <1>6, <1>7, <1>8

\* FreeHandle preserves the invariant.
LEMMA FreeHandlePreserves ==
    ASSUME HMInv, ~cleaned, NEW h, FreeHandle(h)
    PROVE  HMInv'
<1> USE MaxIntAssumption DEF HMInv
<1>1. CASE ~IsHandle(h)
  BY <1>1 DEF FreeHandle, hmVars, HMTypeOK, HandlesPartition, TableOwnsHeap, Pointers
<1>2. CASE IsHandle(h)
  <2>1. /\ freed_handles' = Append(freed_handles, h)
        /\ heap' = heap \ {used_handles[h]}
        /\ used_handles' = Erase(used_handles, h)
        /\ next_handle' = next_handle /\ cleaned' = cleaned
        /\ h \in DOMAIN used_handles
    BY <1>2 DEF FreeHandle, GetCurlPointer, IsHandle
  <2>2. h \in 1..(MaxInt - 1) /\ h \notin Range(freed_handles)
    BY <2>1 DEF HMTypeOK, HandlesPartition
  <2>3. /\ freed_handles' \in Seq(1..(MaxInt - 1))
        /\ Range(freed_handles') = Range(freed_handles) \cup {h}
        /\ IsInjective(freed_handles')
    <3>1. freed_handles \in Seq(1..(MaxInt - 1)) /\ IsInjective(freed_handles)
      BY DEF HMTypeOK, HandlesPartition
    <3> QED BY <2>1, <2>2, <3>1, AppendItems
  <2>4. /\ DOMAIN used_handles' = DOMAIN used_handles \ {h}
        /\ \A k \in DOMAIN used_handles \ {h} : used_handles'[k] = used_handles[k]
        /\ Range(used_handles') = Range(used_handles) \ {used_handles[h]}
        /\ IsInjective(used_handles')
    <3>1. IsInjective(used_handles)
      BY DEF TableOwnsHeap
    <3>2. /\ DOMAIN used_handles' = DOMAIN used_handles \ {h}
          /\ \A k \in DOMAIN used_handles \ {h} : used_handles'[k] = used_handles[k]
      BY <2>1 DEF Erase
    <3>3. Range(used_handles') = Range(used_handles) \ {used_handles[h]}
      BY <2>1, <3>1, <3>2 DEF Range, IsInjective
    <3>4. IsInjective(used_handles')
      BY <3>1, <3>2 DEF IsInjective
    <3> QED BY <3>2, <3>3, <3>4
  <2>5. HMTypeOK'
    BY <2>1, <2>3, <2>4 DEF HMTypeOK
  <2>6. HandlesPartition'
    BY <2>1, <2>3, <2>4 DEF HandlesPartition
  <2>7. TableOwnsHeap'
    BY <2>1, <2>4 DEF TableOwnsHeap, Pointers
  <2> QED BY <2>5, <2>6, <2>7
<1> QED BY <1>1, <1>2

\* CleanHandles preserves the invariant: it leaves no context behind.
LEMMA CleanHandlesPreserves ==
    ASSUME HMInv, ~cleaned, CleanHandles
    PROVE  HMInv'
  BY DEF HMInv, CleanHandles, HMTypeOK, HandlesPartition, TableOwnsHeap, Pointers

\* A step of the manager, or none, preserves the invariant.
LEMMA HMStep ==
    ASSUME HMInv, [HMNext]_hmVars
    PROVE  HMInv'
<1>1. CASE UNCHANGED hmVars
  BY <1>1 DEF HMInv, hmVars, HMTypeOK, HandlesPartition, TableOwnsHeap, Pointers
<1>2. ASSUME ~cleaned, NEW c \in Contexts, New(c) PROVE HMInv'
  BY <1>2, NewPreserves
<1>3. ASSUME ~cleaned, NewHandleFails PROVE HMInv'
  BY <1>1, <1>3 DEF NewHandleFails
<1>4. ASSUME ~cleaned, NEW h \in 1..MaxInt, FreeHandle(h) PROVE HMInv'
  BY <1>4, FreeHandlePreserves
<1>5. ASSUME ~cleaned, CleanHandles PROVE HMInv'
  BY <1>5, CleanHandlesPreserves
<1> QED BY <1>1, <1>2, <1>3, <1>4, <1>5 DEF HMNext

\* The constructor establishes the invariant.
LEMMA HMStart ==
    ASSUME HMInit
    PROVE  HMInv
<1>1. Range(<< >>) = {} /\ IsInjective(<< >>) /\ DOMAIN << >> = {}
  BY DEF Range, IsInjective
<1>2. << >> \in Seq(1..(MaxInt - 1)) /\ MaxInt >= 1 /\ 1..(1 - 1) = {}
  BY MaxIntAssumption
<1> USE DEF HMInit
<1>3. HMTypeOK
  <2>1. DOMAIN used_handles = {} /\ freed_handles \in Seq(1..(MaxInt - 1))
    BY <1>1, <1>2
  <2>2. next_handle \in 1..MaxInt /\ heap = {} /\ cleaned = FALSE
    BY <1>2, MaxIntAssumption
  <2> HIDE DEF HMInit
  <2> QED BY <2>1, <2>2 DEF HMTypeOK
<1>4. HandlesPartition
  <2>1. DOMAIN used_handles = {} /\ Range(freed_handles) = {} /\ 1..(next_handle - 1) = {}
    BY <1>1, <1>2
  <2>2. IsInjective(freed_handles)
    BY <1>1
  <2> QED BY <2>1, <2>2 DEF HandlesPartition
<1>5. TableOwnsHeap
  <2>1. heap = Range(used_handles)
    BY <1>1
  <2>2. IsInjective(used_handles)
    BY <1>1
  <2> QED BY <2>1, <2>2 DEF TableOwnsHeap, Pointers
<1> QED BY <1>3, <1>4, <1>5 DEF HMInv

\* The handle table keeps its types, the numbers given out are partitioned
\* into those in use and those to recycle, and the table owns exactly the
\* contexts that are allocated.
THEOREM HandleTableCorrect == HMSpec => [](HMTypeOK /\ HandlesPartition /\ TableOwnsHeap)
<1>1. HMInit => HMInv
  BY HMStart
<1>2. HMInv /\ [HMNext]_hmVars => HMInv'
  BY HMStep
<1> QED BY <1>1, <1>2, PTL DEF HMSpec, HMInv

\* The table keeps its types: no number outside 1..MaxInt - 1 is given out, and
\* next_handle never passes the limit of int.
THEOREM HandleTypesCorrect == HMSpec => []HMTypeOK
<1> QED BY HandleTableCorrect, PTL

\* Every allocated context is in the table under exactly one number, so that
\* FreeHandle and CleanHandles delete each context once and leave none behind.
THEOREM TableOwnershipCorrect == HMSpec => []TableOwnsHeap
<1> QED BY HandleTableCorrect, PTL

\* NewHandle refuses a request only when every number is in use.
THEOREM ExhaustionCorrect == HMSpec => []ExhaustionIsReal
<1>1. HMInv => ExhaustionIsReal
  <2> SUFFICES ASSUME HMInv, NewHandleResult = 0
               PROVE  DOMAIN used_handles = 1..(MaxInt - 1)
    BY DEF ExhaustionIsReal
  <2> USE MaxIntAssumption DEF HMInv
  <2>1. freed_handles = << >>
    <3> SUFFICES ASSUME freed_handles # << >> PROVE FALSE
      OBVIOUS
    <3>1. Top(freed_handles) \in 1..(MaxInt - 1)
      BY FrontItems DEF HMTypeOK, Top
    <3> QED BY <3>1 DEF NewHandleResult
  <2>2. next_handle = MaxInt
    BY <2>1 DEF NewHandleResult, HMTypeOK
  <2>3. Range(freed_handles) = {}
    BY <2>1 DEF Range
  <2> QED BY <2>2, <2>3 DEF HandlesPartition
<1>2. HMSpec => []HMInv
  BY HandleTableCorrect DEF HMInv
<1> QED BY <1>1, <1>2, PTL
=============================================================================
