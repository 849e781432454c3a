---------------------------- MODULE OrderedTable ----------------------------
(***************************************************************************)
(* What MonotoneTable promises: the lookups and iterations of MMPHFTable,  *)
(* but for gaps.  Between two elements the iterator may stop where there   *)
(* is none; what it reads there is Sentinel, and no element is skipped or  *)
(* met twice because of it.                                                *)
(***************************************************************************)
EXTENDS MMPHFTable

CONSTANT Sentinel  \* what key() returns in a gap

VARIABLE read  \* what key() returns; None without an iterator and at end()

tableVars == <<payloads, built, it, read>>

\* In a gap the index is that of the element behind it.
InGap == read = Sentinel

Element(index) == IF index < end THEN payloads[index + 1] ELSE None

InitTable == Init /\ read = None

ConstructTable == Construct /\ UNCHANGED read

\* operator[] never leads into a gap.
FindElement(k) ==
  /\ ~InGap
  /\ Find(k)
  /\ read' = Element(it')

\* operator++ passes the element it is on.
PassElement ==
  /\ ~InGap
  /\ Advance
  /\ read' \in {Element(it'), Sentinel}

\* operator++ passes no element.
LeaveGap ==
  /\ InGap
  /\ read' = Element(it)
  /\ UNCHANGED vars

DropIterator == Drop /\ read' = None

NextTable ==
  ConstructTable \/ (\E k \in Key : FindElement(k)) \/ PassElement \/ LeaveGap \/ DropIterator

SpecTable == InitTable /\ [][NextTable]_tableVars
=============================================================================
