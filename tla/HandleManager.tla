---------------------------- MODULE HandleManager ----------------------------
(***************************************************************************)
(* The table that gives SourcePawn plugins an integer for every CurlContext*)
(* (handles.cpp, handles.h).  A context is a C++ object on the heap; the   *)
(* manager owns it from NewHandle until FreeHandle or CleanHandles deletes *)
(* it.  Callers only ever pass HANDLE_CURL as the type of an entry, so the *)
(* type field, and the checks on it, are left out.                         *)
(***************************************************************************)
EXTENDS Integers, Sequences, Functions

CONSTANTS Contexts,   \* the addresses operator new may give to a CurlContext
          MaxInt      \* std::numeric_limits<int>::max()

ASSUME MaxIntAssumption == MaxInt \in Nat \ {0}

VARIABLES next_handle,     \* the smallest number never given out
          freed_handles,   \* stack of numbers to give out again, top last
          used_handles,    \* number -> context, defined on the numbers in use
          heap,            \* the contexts that are allocated
          cleaned          \* CleanHandles has run: the manager is not used again

hmVars == <<next_handle, freed_handles, used_handles, heap, cleaned>>

HMInit ==
    /\ next_handle = 1
    /\ freed_handles = << >>
    /\ used_handles = << >>
    /\ heap = {}
    /\ cleaned = FALSE

(***************************************************************************)
(* Values.                                                                 *)
(***************************************************************************)
Top(stack) == stack[Len(stack)]
Pop(stack) == SubSeq(stack, 1, Len(stack) - 1)

\* used_handles[h] = c, and used_handles.erase(h)
Insert(map, h, c) == [k \in DOMAIN map \cup {h} |-> IF k = h THEN c ELSE map[k]]
Erase(map, h) == [k \in DOMAIN map \ {h} |-> map[k]]

\* GetCurlPointer(h) returns a context, and which one.
IsHandle(h) == h \in DOMAIN used_handles
GetCurlPointer(h) == used_handles[h]

\* The contexts the table refers to.
Pointers == Range(used_handles)

\* Mutant: the limit is noticed one number too late.
NewHandleResult_LateLimit ==
    IF freed_handles # << >> THEN Top(freed_handles)
    ELSE IF next_handle > MaxInt THEN 0
    ELSE next_handle

\* What NewHandle returns in this state; 0 stands for failure.
NewHandleResult ==
    IF freed_handles # << >> THEN Top(freed_handles)
    ELSE IF next_handle = MaxInt THEN 0
    ELSE next_handle

(***************************************************************************)
(* Operations.                                                             *)
(***************************************************************************)

\* Mutant: the recycled number stays on the stack.
NewHandle_NoPop(c) ==
    /\ NewHandleResult # 0
    /\ used_handles' = Insert(used_handles, NewHandleResult, c)
    /\ next_handle' = IF freed_handles = << >> THEN next_handle + 1
                      ELSE next_handle
    /\ UNCHANGED <<freed_handles, cleaned>>

\* NewHandle(c) gives c a number: the last one freed, or else a fresh one.
NewHandle(c) ==
    /\ NewHandleResult # 0
    /\ used_handles' = Insert(used_handles, NewHandleResult, c)
    /\ \/ /\ freed_handles # << >>
          /\ freed_handles' = Pop(freed_handles)
          /\ UNCHANGED next_handle
       \/ /\ freed_handles = << >>
          /\ next_handle' = next_handle + 1
          /\ UNCHANGED freed_handles
    /\ UNCHANGED cleaned

\* Mutants: the context is not deleted; the number is not recycled.
FreeHandle_NoDelete(h) ==
    /\ IsHandle(h)
    /\ freed_handles' = Append(freed_handles, h)
    /\ used_handles' = Erase(used_handles, h)
    /\ UNCHANGED <<next_handle, heap, cleaned>>

FreeHandle_NoRecycle(h) ==
    /\ IsHandle(h)
    /\ heap' = heap \ {GetCurlPointer(h)}
    /\ used_handles' = Erase(used_handles, h)
    /\ UNCHANGED <<next_handle, freed_handles, cleaned>>

\* FreeHandle(h) recycles the number, deletes the context, erases the entry;
\* a number that is not in use is ignored.
FreeHandle(h) ==
    IF IsHandle(h)
    THEN /\ freed_handles' = Append(freed_handles, h)
         /\ heap' = heap \ {GetCurlPointer(h)}
         /\ used_handles' = Erase(used_handles, h)
         /\ UNCHANGED <<next_handle, cleaned>>
    ELSE UNCHANGED hmVars

\* CleanHandles deletes every context and leaves the table as it is.
CleanHandles ==
    /\ heap' = heap \ Pointers
    /\ cleaned' = TRUE
    /\ UNCHANGED <<next_handle, freed_handles, used_handles>>

(***************************************************************************)
(* The manager on its own, as its callers in natives.cpp, context.cpp and  *)
(* extension.cpp use it.  CurlNew allocates a context and deletes it again *)
(* when no number is left.                                                 *)
(***************************************************************************)
New(c) ==
    /\ c \notin heap
    /\ NewHandle(c)
    /\ heap' = heap \cup {c}

NewHandleFails ==
    /\ NewHandleResult = 0
    /\ UNCHANGED hmVars

HMNext ==
    /\ ~cleaned
    /\ \/ \E c \in Contexts : New(c)
       \/ NewHandleFails
       \/ \E h \in 1..MaxInt : FreeHandle(h)
       \/ CleanHandles

HMSpec == HMInit /\ [][HMNext]_hmVars

(***************************************************************************)
(* Properties.                                                             *)
(***************************************************************************)

\* The type of every variable of HandleManager.
HMTypeOK ==
    /\ next_handle \in 1..MaxInt
    /\ freed_handles \in Seq(1..(MaxInt - 1))
    /\ DOMAIN used_handles \subseteq 1..(MaxInt - 1)
    /\ \A h \in DOMAIN used_handles : used_handles[h] \in Contexts
    /\ heap \subseteq Contexts
    /\ cleaned \in BOOLEAN

\* Every number ever given out is either in use or on the freed stack, never
\* both, and it is on the stack once: NewHandle never gives a plugin a number
\* that another request still has.
HandlesPartition ==
    /\ DOMAIN used_handles \cup Range(freed_handles) = 1..(next_handle - 1)
    /\ DOMAIN used_handles \cap Range(freed_handles) = {}
    /\ IsInjective(freed_handles)

\* The table and the heap agree: an entry always points to an allocated
\* context, a context that has lost its entry has been deleted, and no two
\* numbers name the same context (which would then be deleted twice).  After
\* CleanHandles (SDK_OnUnload) no context is left allocated.
TableOwnsHeap ==
    /\ heap = IF cleaned THEN {} ELSE Pointers
    /\ IsInjective(used_handles)

\* NewHandle refuses a request (and CurlNew returns 0) only when all
\* MaxInt - 1 numbers are in use: a freed number is never forgotten.
ExhaustionIsReal ==
    NewHandleResult = 0 => DOMAIN used_handles = 1..(MaxInt - 1)
=============================================================================
