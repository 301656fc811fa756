------------------------------- MODULE ProcList -------------------------------
(***************************************************************************)
(* The process list under the cursor (internal/ui/model.go): every sample  *)
(* re-sorts, filters and caps it while the user moves, sorts, searches and *)
(* resizes, and the next key acts on the row the cursor is on.             *)
(*                                                                         *)
(* A sample maps each live PID to its parent and to its CPU share; the     *)
(* other sort columns, names and prefixes are left out.  The viewport      *)
(* (bubbles, external) keeps an offset and the lines it was last given.    *)
(***************************************************************************)
EXTENDS Integers, Sequences, SequencesExt, FiniteSets

CONSTANTS
  Parents,    (* per PID, the parents a sample may give it: PIDs are       *)
              (*   reused between the reads of one walk, so any of them    *)
  CPUs,       (* CPU shares                                                *)
  Matching,   (* PIDs whose row contains the text the user searches for    *)
  ProcsCap,   (* cfg.ProcsCap                                              *)
  Heights     (* viewport heights of the terminal's sizes                  *)

ASSUME ProcListAssumption ==
  /\ DOMAIN Parents \subseteq Nat
  /\ IsFiniteSet(DOMAIN Parents)
  /\ CPUs \subseteq Int
  /\ ProcsCap \in Nat \ {0}
  /\ Heights \subseteq Nat \ {0}

VARIABLES
  procs,      (* the last sample                                           *)
  procsView,  (* the rows, as PIDs                                         *)
  procsSel,   (* the cursor's row, from 0                                  *)
  byCPU,      (* procsSort: sortCPU or sortPID                             *)
  procsTree,
  procsQuery, (* a search is active                                        *)
  searching,  (* the search box has the keys                               *)
  vp,         (* the viewport: height, YOffset, number of lines            *)
  drawn,      (* what the viewport shows: the rows and the marked one      *)
  wheeled     (* history: the mouse wheel moved the viewport since         *)

listVars == <<procs, procsView, procsSel, byCPU, procsTree, procsQuery,
              searching, vp, drawn, wheeled>>

------------------------------------------------------------------------------
PIDs == DOMAIN Parents
Samples == UNION {[S -> [ppid : UNION Range(Parents), cpu : CPUs]] : S \in SUBSET PIDs}
Walks == {s \in Samples : \A p \in DOMAIN s : s[p].ppid \in Parents[p]}

AtMost(hi, n) == IF n > hi THEN hi ELSE n
AtLeast(lo, n) == IF n < lo THEN lo ELSE n

(* sortProcSlice: by the active column, ties by PID.                       *)
Above(sample, cpuFirst, p, q) ==
  LET a == sample[p].cpu b == sample[q].cpu
  IN  IF cpuFirst /\ a # b THEN a > b ELSE p < q
Sorted(sample, cpuFirst, S) ==
  [i \in 1..Cardinality(S) |->
     CHOOSE p \in S :
       Cardinality({q \in S : Above(sample, cpuFirst, q, p)}) = i - 1]

(* computeProcsView                                                        *)
ProcsFlat(sample, cpuFirst, query) ==
  LET all == Sorted(sample, cpuFirst,
               IF query THEN DOMAIN sample \cap Matching ELSE DOMAIN sample)
  IN  SubSeq(all, 1, AtMost(ProcsCap, Len(all)))

(* computeProcsTree: depth first, siblings in the order of the sort, each  *)
(* PID once, none beyond the cap.                                          *)
HasParent(sample, p) == sample[p].ppid \in DOMAIN sample /\ sample[p].ppid # p
RootsOfInit(sample) == {p \in DOMAIN sample : sample[p].ppid = 0}
Roots(sample) == {p \in DOMAIN sample : ~HasParent(sample, p)}
Children(sample, p) ==
  {c \in DOMAIN sample : HasParent(sample, c) /\ sample[c].ppid = p}

(* One visit per process is enough: each is the child of one parent.       *)
Visit(sample, cpuFirst, w) ==
  IF w.todo = <<>> THEN w
  ELSE LET p == Head(w.todo)
       IN  IF Len(w.out) >= ProcsCap \/ Contains(w.out, p)
           THEN [w EXCEPT !.todo = Tail(@)]
           ELSE [todo |-> Sorted(sample, cpuFirst, Children(sample, p)) \o Tail(w.todo),
                 out |-> Append(w.out, p)]
ProcsForest(sample, cpuFirst) ==
  LET walk[i \in 0..Cardinality(DOMAIN sample)] ==
        IF i = 0 THEN [todo |-> Sorted(sample, cpuFirst, Roots(sample)), out |-> <<>>]
        ELSE Visit(sample, cpuFirst, walk[i - 1])
  IN  walk[Cardinality(DOMAIN sample)].out

RecomputedView(sample, cpuFirst, tree, query) ==
  IF tree /\ ~query THEN ProcsForest(sample, cpuFirst)
  ELSE ProcsFlat(sample, cpuFirst, query)

------------------------------------------------------------------------------
(* The viewport.  SetContent goes to the bottom when the offset fell off   *)
(* the lines; SetYOffset stops at the last full page.                      *)
PageEnd(v) == AtLeast(0, v.lines - v.height)
SetYOffset(v, n) == [v EXCEPT !.offset = AtMost(PageEnd(v), AtLeast(0, n))]
SetContent(v, n) ==
  LET w == [v EXCEPT !.lines = n]
  IN  IF w.offset > n - 1 THEN [w EXCEPT !.offset = PageEnd(w)] ELSE w
GotoTop(v) == [v EXCEPT !.offset = 0]

EnsureLate(v, sel) ==
  IF v.height > 0 /\ sel < v.offset THEN SetYOffset(v, sel)
  ELSE IF v.height > 0 /\ sel > v.offset + v.height THEN SetYOffset(v, sel - v.height + 1)
  ELSE v
EnsureProcVisible(v, sel) ==
  IF v.height > 0 /\ sel < v.offset THEN SetYOffset(v, sel)
  ELSE IF v.height > 0 /\ sel >= v.offset + v.height THEN SetYOffset(v, sel - v.height + 1)
  ELSE v

(* A row is a line, and the text ends with an empty one; an empty list is  *)
(* one line that says so.                                                  *)
Rendered(v, sel) ==
  EnsureProcVisible(SetContent(v, AtLeast(1, Len(procsView')) + 1), sel)

Draw(v) ==
  /\ vp' = Rendered(v, procsSel')
  /\ drawn' = [rows |-> procsView', sel |-> procsSel']
  /\ wheeled' = FALSE

(* renderProcs clamps the cursor first.                                    *)
ClampSel(sel) == AtLeast(0, AtMost(Len(procsView') - 1, sel))

SelectedProc(view, sel) == IF sel + 1 \in DOMAIN view THEN {view[sel + 1]} ELSE {}

KeepRow(view) == procsSel
Follow(view) ==
  LET on == SelectedProc(procsView, procsSel)
      at == {i \in DOMAIN view : view[i] \in on}
  IN  IF at # {} THEN (CHOOSE i \in at : TRUE) - 1 ELSE procsSel

RefreshProcsFollow(v) ==
  /\ procsView' = RecomputedView(procs', byCPU', procsTree', procsQuery')
  /\ procsSel' = ClampSel(Follow(procsView'))
  /\ Draw(v)

(* s, t, ctrl+u and enter in the search box: refreshProcs from row 0, then *)
(* the top.                                                                *)
RefreshFromTop ==
  /\ UNCHANGED procs
  /\ procsView' = RecomputedView(procs', byCPU', procsTree', procsQuery')
  /\ procsSel' = 0
  /\ vp' = GotoTop(Rendered(vp, 0))
  /\ drawn' = [rows |-> procsView', sel |-> 0]
  /\ wheeled' = FALSE

------------------------------------------------------------------------------
ListInit ==
  /\ procs = [p \in {} |-> 0]
  /\ procsView = <<>>
  /\ procsSel = 0
  /\ byCPU = TRUE
  /\ procsTree = FALSE
  /\ procsQuery = FALSE
  /\ searching = FALSE
  /\ vp = [height |-> 0, offset |-> 0, lines |-> 1]
  /\ drawn = [rows |-> <<>>, sel |-> 0]
  /\ wheeled = FALSE

ProcMsg(s) ==
  /\ procs' = s
  /\ UNCHANGED <<byCPU, procsTree, procsQuery, searching>>
  /\ RefreshProcsFollow(vp)

WindowSize(h) ==
  /\ h # vp.height
  /\ UNCHANGED <<procs, byCPU, procsTree, procsQuery, searching>>
  /\ RefreshProcsFollow([vp EXCEPT !.height = h])

(* up, down, pgup, pgdown, home, end: the view stays, the cursor moves.    *)
LastRow == AtLeast(0, Len(procsView) - 1)
Page == AtLeast(1, vp.height)
CursorMoves ==
  {AtLeast(0, procsSel - 1), AtLeast(procsSel, AtMost(LastRow, procsSel + 1)),
   AtLeast(0, procsSel - Page), AtMost(LastRow, procsSel + Page), 0, LastRow}
MoveCursor(n) ==
  /\ ~searching
  /\ procsSel' = n
  /\ UNCHANGED <<procs, procsView, byCPU, procsTree, procsQuery, searching>>
  /\ Draw(vp)

CycleSort ==
  /\ ~searching
  /\ byCPU' = ~byCPU
  /\ UNCHANGED <<procsTree, procsQuery, searching>>
  /\ RefreshFromTop
ToggleTree ==
  /\ ~searching
  /\ procsTree' = ~procsTree
  /\ UNCHANGED <<byCPU, procsQuery, searching>>
  /\ RefreshFromTop
ClearQuery ==
  /\ ~searching
  /\ procsQuery' = FALSE
  /\ UNCHANGED <<byCPU, procsTree, searching>>
  /\ RefreshFromTop

(* "/" opens the box; enter takes what it holds, esc leaves the query.     *)
OpenSearch ==
  /\ ~searching
  /\ searching' = TRUE
  /\ UNCHANGED <<procs, procsView, procsSel, byCPU, procsTree, procsQuery, vp,
                 drawn, wheeled>>
EscSearch ==
  /\ searching
  /\ searching' = FALSE
  /\ UNCHANGED <<procs, procsView, procsSel, byCPU, procsTree, procsQuery, vp,
                 drawn, wheeled>>
EnterSearch(q) ==
  /\ searching
  /\ searching' = FALSE
  /\ procsQuery' = q
  /\ UNCHANGED <<byCPU, procsTree>>
  /\ RefreshFromTop

(* Only the wheel reaches the viewport; it does not move the cursor.       *)
Wheel(n) ==
  /\ ~searching
  /\ vp.height > 0
  /\ n \in 0..PageEnd(vp)
  /\ n # vp.offset
  /\ vp' = SetYOffset(vp, n)
  /\ wheeled' = TRUE
  /\ UNCHANGED <<procs, procsView, procsSel, byCPU, procsTree, procsQuery,
                 searching, drawn>>

ListKey ==
  \/ \E n \in CursorMoves : MoveCursor(n)
  \/ CycleSort \/ ToggleTree \/ ClearQuery
  \/ OpenSearch \/ EscSearch
  \/ \E q \in BOOLEAN : EnterSearch(q)

ListNext ==
  \/ \E s \in Walks : ProcMsg(s)
  \/ \E h \in Heights : WindowSize(h)
  \/ ListKey
  \/ \E n \in 0..Cardinality(PIDs) : Wheel(n)

ListSpec == ListInit /\ [][ListNext]_listVars

------------------------------------------------------------------------------
ListTypeOK ==
  /\ procs \in Samples
  /\ procsView \in Seq(PIDs)
  /\ procsSel \in Nat
  /\ {byCPU, procsTree, procsQuery, searching, wheeled} \subseteq BOOLEAN
  /\ vp \in [height : Nat, offset : Nat, lines : Nat \ {0}]
  /\ drawn \in [rows : Seq(PIDs), sel : Nat]

(* Rooted, the least set that is LedTo: those whose parents, followed up,  *)
(* end outside the sample or at a process that is its own parent.          *)
LedTo(sample, S) ==
  \A p \in DOMAIN sample :
    (HasParent(sample, p) => sample[p].ppid \in S) => p \in S
Rooted(sample) ==
  {p \in DOMAIN sample : \A S \in SUBSET DOMAIN sample : LedTo(sample, S) => p \in S}
Wanted ==
  IF procsQuery THEN DOMAIN procs \cap Matching
  ELSE IF procsTree THEN Rooted(procs) ELSE DOMAIN procs

(* The list shows what it should, each process once: all that match the    *)
(* search, in a tree all whose parents lead somewhere (an orphan is a root *)
(* of its own), and of these as many as the cap allows (computeProcsView,  *)
(* computeProcsTree, model.go:2051-2162).                                  *)
ViewListsAll ==
  /\ IsInjective(procsView)
  /\ Range(procsView) \subseteq Wanted
  /\ Len(procsView) = AtMost(ProcsCap, Cardinality(Wanted))

(* The cursor keeps to its process: unless a key was pressed, the process  *)
(* under it stays the one it was, if it is still alive and still wanted in *)
(* a list short enough to show it, whatever the new order (the comment on  *)
(* refreshProcsFollow, model.go:2170-2173).                                *)
CursorFollows ==
  [][ ~ListKey =>
        \A p \in SelectedProc(procsView, procsSel) :
          (p \in Wanted' /\ Cardinality(Wanted') <= ProcsCap)
            => SelectedProc(procsView', procsSel') = {p} ]_listVars

(* The row the screen marks is the one k, K and enter act on: what was     *)
(* drawn last marks the process selectedProc returns, or neither exists.   *)
MarkerIsTarget ==
  SelectedProc(drawn.rows, drawn.sel) = SelectedProc(procsView, procsSel)

(* The target of the next key is marked and on screen: in any mix of       *)
(* samples, resizes, shorter and longer lists, jumps and sorts the marked  *)
(* row is the one keys act on, and it is inside the viewport unless the    *)
(* wheel moved it away since (ensureProcVisible, model.go:2193-2232).      *)
TargetOnScreen ==
  /\ MarkerIsTarget
  /\ (vp.height > 0 /\ ~wheeled) =>
       procsSel \in vp.offset .. (vp.offset + vp.height - 1)
==============================================================================
