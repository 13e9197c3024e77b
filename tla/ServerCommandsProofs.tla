------------------------ MODULE ServerCommandsProofs ------------------------
(***************************************************************************)
(* Theorems about a command that runs at a server, for any commands whose  *)
(* steps fit together (StepFits), any rows, any size of pages, and any     *)
(* number of lost calls and of changes by other users.  The last two are   *)
(* about commands that look up first what they need (OneThingLooksUpFirst) *)
(* and whose writes answer to a wish (AllWriteAsAsked), as all those of    *)
(* MCServerCommands do.                                                    *)
(***************************************************************************)
EXTENDS CommandShapes, FiniteSetTheorems, WellFoundedInduction, TLAPS

RowKeys == {"kind", "id", "name", "of"}
IsRow(r) == RowKeys \subseteq DOMAIN r /\ r.id \in Nat

\* Rows, each with an id of its own.
Distinct(rows) ==
    /\ \A r \in rows : IsRow(r)
    /\ \A r, s \in rows : r.id = s.id => r = s

Bounded(rows) == \E n \in Nat : \A r \in rows : r.id <= n

\* All ids that were ever seen are numbers below some bound, so that there is
\* a fresh one.
RowInv == Distinct(db) /\ Bounded(db \cup touched) /\ \A t \in touched : t.id \in Nat

StepInv ==
    /\ \E c \in DOMAIN Commands : cmd = Commands[c]
    /\ pc \in 1 .. Len(Steps) + 1
    /\ exit \in Exits
    /\ faults \in 0 .. MaxFaults

RegFields == {"found", "patch", "page", "add", "rm", "listed", "shown"}
HasIds(rows) == \A r \in rows : r.id \in Nat

\* What is to be written back never has an id.
RegInv ==
    /\ DOMAIN reg = RegFields
    /\ reg.page \in Nat \ {0}
    /\ reg.found.id \in Nat
    /\ "id" \notin DOMAIN reg.patch
    /\ HasIds(reg.add) /\ HasIds(reg.rm) /\ HasIds(reg.listed) /\ HasIds(reg.shown)

FlagInv == changed \in BOOLEAN /\ shifted \in BOOLEAN

TypeInv == RowInv /\ StepInv /\ RegInv /\ FlagInv

----------------------------------------------------------------------------
(* Numbers: a set of numbers with a bound has a maximum, a finite set of   *)
(* rows has a bound.                                                       *)

LEMMA LeastNumber ==
    ASSUME NEW S, S \subseteq Nat, S # {}
    PROVE  \E x \in S : \A y \in S : x <= y
<1> DEFINE T == {0 .. k : k \in S}
<1>1. T \subseteq FiniteSubsetsOf(Nat) /\ T # {}
  <2>1. \A k \in S : 0 .. k \subseteq Nat /\ IsFiniteSet(0 .. k)
    BY FS_Interval
  <2> QED
    BY <2>1 DEF FiniteSubsetsOf
<1>2. PICK t \in T : \A u \in T : ~(<<u, t>> \in StrictSubsetOrdering(Nat))
  BY <1>1, FS_StrictSubsetOrderingWellFounded, WFMin
<1>3. PICK x \in S : t = 0 .. x
  BY <1>2
<1>4. ASSUME NEW y \in S, ~(x <= y) PROVE FALSE
  <2>1. 0 .. y \in T /\ 0 .. y \subseteq 0 .. x /\ x \in 0 .. x /\ x \notin 0 .. y
    BY <1>4
  <2>2. 0 .. y \in SUBSET Nat /\ 0 .. x \in SUBSET Nat
    OBVIOUS
  <2>3. <<0 .. y, 0 .. x>> \in StrictSubsetOrdering(Nat)
    BY <2>1, <2>2 DEF StrictSubsetOrdering
  <2> QED
    BY <1>2, <1>3, <2>1, <2>3
<1> QED
  BY <1>4

LEMMA MaxOfBounded ==
    ASSUME NEW S, S \subseteq Nat, S # {}, NEW n \in Nat, \A x \in S : x <= n
    PROVE  Max(S) \in S /\ \A x \in S : x <= Max(S)
<1> DEFINE B == {m \in Nat : \A x \in S : x <= m}
<1>1. PICK m \in B : \A k \in B : m <= k
  <2>1. n \in B
    OBVIOUS
  <2> QED
    BY <2>1, LeastNumber
<1>2. m \in S
  <2> SUFFICES ASSUME m \notin S PROVE FALSE
    OBVIOUS
  <2>1. \A x \in S : x < m
    BY <1>1
  <2>2. m - 1 \in Nat
    <3>1. PICK x \in S : TRUE
      OBVIOUS
    <3>2. x \in Nat /\ m \in Nat /\ x < m
      BY <2>1, <3>1
    <3> QED
      BY <3>2
  <2>3. m - 1 \in B
    BY <2>1, <2>2
  <2> QED
    BY <2>3, <1>1
<1>3. \E x \in S : \A y \in S : x >= y
  BY <1>1, <1>2
<1> QED
  BY <1>3 DEF Max

LEMMA FiniteIsBounded ==
    ASSUME NEW S, IsFiniteSet(S), \A r \in S : r.id \in Nat
    PROVE  Bounded(S)
<1> SUFFICES ASSUME ~Bounded(S) PROVE FALSE
  OBVIOUS
<1> DEFINE C == {n \in Nat : \E T \in SUBSET S : Cardinality(T) = n /\ ~Bounded(T)}
<1>1. \A T \in SUBSET S : IsFiniteSet(T) /\ Cardinality(T) \in Nat
  BY FS_Subset, FS_CardinalityType
<1>2. PICK n \in C : \A m \in C : n <= m
  <2>1. C # {}
    BY <1>1
  <2> QED
    BY <2>1, LeastNumber
<1>3. PICK T \in SUBSET S : Cardinality(T) = n /\ ~Bounded(T)
  BY <1>2
<1>4. PICK x \in T : TRUE
  BY <1>3 DEF Bounded
<1>5. Cardinality(T \ {x}) = n - 1
  BY <1>1, <1>3, <1>4, FS_RemoveElement
<1>6. Bounded(T \ {x})
  <2>1. n - 1 \in Nat
    BY <1>1, <1>3, <1>5
  <2>2. n - 1 \notin C
    BY <1>2, <2>1
  <2> QED
    BY <2>1, <2>2, <1>5, <1>3
<1>7. PICK b \in Nat : \A r \in T \ {x} : r.id <= b
  BY <1>6 DEF Bounded
<1>8. x.id \in Nat /\ \A r \in T : r.id \in Nat
  BY <1>3, <1>4
<1>9. CASE x.id <= b
  BY <1>3, <1>7, <1>8, <1>9 DEF Bounded
<1>10. CASE ~(x.id <= b)
  BY <1>3, <1>7, <1>8, <1>10 DEF Bounded
<1> QED
  BY <1>9, <1>10
----------------------------------------------------------------------------
(* Rows and their ids.                                                     *)

LEMMA PatchedKeepsId ==
    ASSUME NEW f, NEW r, "id" \notin DOMAIN f, IsRow(r)
    PROVE  IsRow(Patched(f, r)) /\ Patched(f, r).id = r.id
BY DEF IsRow, RowKeys, Patched

LEMMA FreshIdIsNew ==
    ASSUME RowInv
    PROVE  /\ FreshId \in Nat
           /\ \A r \in db \cup touched \cup Rows : r.id < FreshId
<1> DEFINE ids == {r.id : r \in db \cup touched \cup Rows}
<1>1. PICK m \in Nat : \A r \in db \cup touched : r.id <= m
  BY DEF RowInv, Bounded
<1>2. PICK n \in Nat : \A r \in Rows : r.id <= n
  BY RowsAssumption, FiniteIsBounded DEF Bounded
<1>3. ids \subseteq Nat /\ ids # {}
  BY RowsAssumption DEF RowInv, Distinct, IsRow
<1>4. \A i \in ids : i <= m + n
  <2>1. \A r \in db \cup touched \cup Rows : r.id \in Nat
    BY <1>3
  <2>2. ASSUME NEW r \in db \cup touched \cup Rows PROVE r.id <= m + n
    BY <2>1, <1>1, <1>2
  <2> QED
    BY <2>2
<1>5. Max(ids) \in ids /\ \A i \in ids : i <= Max(ids)
  <2>1. m + n \in Nat
    OBVIOUS
  <2> HIDE DEF ids
  <2> QED
    BY <1>3, <1>4, <2>1, MaxOfBounded
<1>6. FreshId = Max(ids) + 1
  BY DEF FreshId
<1>7. Max(ids) \in Nat
  BY <1>3, <1>5
<1>8. \A r \in db \cup touched \cup Rows : r.id \in ids /\ r.id \in Nat
  BY <1>3
<1> HIDE DEF ids
<1> QED
  BY <1>5, <1>6, <1>7, <1>8

\* Rows that are taken away, changed in place or made anew.
LEMMA FewerRows ==
    ASSUME NEW rows, Distinct(rows), NEW rest, rest \subseteq rows
    PROVE  Distinct(rest)
BY DEF Distinct

LEMMA MoreRows ==
    ASSUME NEW rows, Distinct(rows), NEW row, IsRow(row), \A r \in rows : r.id # row.id
    PROVE  Distinct(rows \cup {row})
BY DEF Distinct

\* The ids stay below a bound when at most one is added.
LEMMA BoundKept ==
    ASSUME NEW rows, Bounded(rows), NEW n \in Nat, NEW rows1,
           \A r \in rows : r.id \in Nat,
           \A r \in rows1 : r.id = n \/ \E s \in rows : s.id = r.id
    PROVE  Bounded(rows1)
<1>1. PICK m \in Nat : \A r \in rows : r.id <= m
  BY DEF Bounded
<1>2. m + n \in Nat /\ \A r \in rows1 : r.id <= m + n
  <2> SUFFICES ASSUME NEW r \in rows1 PROVE r.id <= m + n
    OBVIOUS
  <2>1. CASE r.id = n
    BY <2>1
  <2>2. ASSUME NEW s \in rows, s.id = r.id PROVE r.id <= m + n
    BY <2>2, <1>1
  <2> QED
    BY <2>1, <2>2
<1> QED
  BY <1>2 DEF Bounded

\* The rows after a step of the command.
LEMMA RowsKept ==
    ASSUME RowInv, Distinct(db'), UNCHANGED touched,
           \A r \in db' : r.id = FreshId \/ \E s \in db : s.id = r.id
    PROVE  RowInv'
<1>1. \A r \in db \cup touched : r.id \in Nat
  BY DEF RowInv, Distinct, IsRow
<1>2. \A r \in db' \cup touched' : r.id = FreshId \/ \E s \in db \cup touched : s.id = r.id
  OBVIOUS
<1>3. Bounded(db' \cup touched')
  BY <1>1, <1>2, BoundKept, FreshIdIsNew DEF RowInv
<1> QED
  BY <1>3 DEF RowInv

----------------------------------------------------------------------------
(* The place of the command.                                               *)

LEMMA CommandFits ==
    ASSUME StepInv
    PROVE  /\ Len(Steps) \in Nat /\ DOMAIN Steps = 1 .. Len(Steps)
           /\ \A i \in DOMAIN Steps : StepFits(Steps[i], Len(Steps) - i)
BY CommandsAssumption DEF StepInv, Steps

\* The command goes on with its next step, stays where it is, or ends.
LEMMA StepKept ==
    ASSUME StepInv, cmd' = cmd, exit' \in Exits, faults' \in 0 .. MaxFaults,
           pc' \in 1 .. Len(Steps) + 1
    PROVE  StepInv'
<1>1. Steps' = Steps
  BY DEF Steps
<1> QED
  BY <1>1 DEF StepInv

LEMMA NextPlace ==
    ASSUME StepInv, pc \in DOMAIN Steps
    PROVE  pc + 1 \in 1 .. Len(Steps) + 1
BY CommandFits

LEMMA AnswerKept ==
    ASSUME StepInv, pc \in DOMAIN Steps, cmd' = cmd, Proceed \/ Answered
    PROVE  StepInv'
<1>1. CASE Proceed
  <2>1. pc' \in 1 .. Len(Steps) + 1 /\ exit' = "" /\ faults' = faults
    BY <1>1, NextPlace DEF Proceed
  <2>2. exit' \in Exits /\ faults' \in 0 .. MaxFaults
    BY <2>1 DEF StepInv, Exits
  <2> QED
    BY <2>1, <2>2, StepKept
<1>2. CASE faults < MaxFaults /\ faults' = faults + 1 /\ End("call")
  <2>1. pc' \in 1 .. Len(Steps) + 1 /\ exit' \in Exits
    BY <1>2 DEF End, Exits, StepInv
  <2>2. faults' \in 0 .. MaxFaults
    BY <1>2, BoundAssumption DEF StepInv
  <2> QED
    BY <2>1, <2>2, StepKept
<1> QED
  BY <1>1, <1>2 DEF Answered

LEMMA EndKept ==
    ASSUME StepInv, cmd' = cmd, faults' = faults, NEW why \in Exits, End(why)
    PROVE  StepInv'
<1>1. exit' \in Exits /\ pc' \in 1 .. Len(Steps) + 1
  BY DEF End, StepInv
<1>2. faults' \in 0 .. MaxFaults
  BY DEF StepInv
<1> QED
  BY <1>1, <1>2, StepKept

LEMMA NowIs ==
    ASSUME NEW op, Now(op), StepInv
    PROVE  pc \in DOMAIN Steps /\ Steps[pc].op = op /\ StepFits(Steps[pc], Len(Steps) - pc)
BY CommandFits DEF Now
----------------------------------------------------------------------------
(* Types: the steps that only end the command, or go on.                   *)

LEMMA PickedAreRows == \A p : Picked(p) \subseteq db
BY DEF Picked

LEMMA NothingChanged ==
    ASSUME TypeInv, StepInv', UNCHANGED <<db, reg, changed, others>>
    PROVE  TypeInv'
BY DEF TypeInv, RowInv, Distinct, Bounded, RegInv, HasIds, FlagInv, others

LEMMA RefusedType ==
    ASSUME TypeInv, NEW op, NEW why \in Exits, Refused(op, why)
    PROVE  TypeInv'
<1>1. StepInv'
  BY EndKept DEF TypeInv, Refused
<1> QED
  BY <1>1, NothingChanged DEF Refused

LEMMA MissingType ==
    ASSUME TypeInv, Missing \/ UserUnknown
    PROVE  TypeInv'
<1>1. \E op : Refused(op, "missing") \/ Refused(op, "unknown")
  BY DEF Missing, UserUnknown
<1> QED
  BY <1>1, RefusedType DEF Exits

LEMMA StopType ==
    ASSUME TypeInv, DoStop \/ Exists \/ Finish
    PROVE  TypeInv'
<1>1. CASE DoStop
  <2>1. Steps[pc].exit \in Exits
    BY <1>1, NowIs DEF TypeInv, DoStop, StepFits, Exits
  <2> QED
    BY <1>1, <2>1, RefusedType DEF DoStop
<1>2. CASE Exists
  BY <1>2, RefusedType DEF Exists, Exits
<1>3. CASE Finish
  <2>1. StepInv'
    BY <1>3, EndKept DEF TypeInv, Finish, Exits
  <2> QED
    BY <1>3, <2>1, NothingChanged DEF Finish
<1> QED
  BY <1>1, <1>2, <1>3

LEMMA LostType ==
    ASSUME TypeInv, Lost
    PROVE  TypeInv'
<1>1. faults' \in 0 .. MaxFaults /\ cmd' = cmd
  BY BoundAssumption DEF TypeInv, StepInv, Lost
<1>2. exit' \in Exits
  BY DEF TypeInv, StepInv, Lost, End, Exits
<1>3. pc' \in 1 .. Len(Steps) + 1
  <2>1. CASE Now("try") /\ pc' = pc + 1
    BY <2>1, NowIs, NextPlace DEF TypeInv
  <2>2. CASE pc' = pc
    BY <2>2 DEF TypeInv, StepInv
  <2> QED
    BY <2>1, <2>2 DEF Lost, End
<1>4. StepInv'
  BY <1>1, <1>2, <1>3, StepKept DEF TypeInv
<1> QED
  BY <1>4, NothingChanged DEF Lost

LEMMA AskType ==
    ASSUME TypeInv, DoAsk
    PROVE  TypeInv'
<1> SUFFICES StepInv'
  BY NothingChanged DEF DoAsk
<1>1. StepInv /\ pc \in DOMAIN Steps
  BY NowIs DEF TypeInv, DoAsk
<1>2. /\ Steps[pc].skip \in 0 .. Len(Steps) - pc
      /\ Steps[pc].skip = 0 => Steps[pc].no \in Exits
  BY NowIs DEF TypeInv, DoAsk, StepFits
<1>3. cmd' = cmd
  BY DEF DoAsk
<1>4. CASE Proceed
  BY <1>1, <1>3, <1>4, AnswerKept
<1>5. CASE Steps[pc].skip = 0 /\ End(Steps[pc].no) /\ UNCHANGED faults
  <2>1. Steps[pc].no \in Exits /\ faults' = faults
    BY <1>2, <1>5
  <2> QED
    BY <1>1, <1>3, <1>5, <2>1, EndKept
<1>6. CASE pc' = pc + 1 + Steps[pc].skip /\ UNCHANGED <<exit, faults>>
  <2>1. Len(Steps) \in Nat /\ pc \in 1 .. Len(Steps)
    BY <1>1, CommandFits
  <2>2. pc' \in 1 .. Len(Steps) + 1
    BY <1>2, <1>6, <2>1
  <2>3. exit' \in Exits /\ faults' \in 0 .. MaxFaults
    BY <1>1, <1>6 DEF StepInv
  <2> QED
    BY <1>1, <1>3, <2>2, <2>3, StepKept
<1> QED
  BY <1>4, <1>5, <1>6 DEF DoAsk
----------------------------------------------------------------------------
(* Types: the steps that read.                                             *)

LEMMA OnlyRead ==
    ASSUME TypeInv, StepInv', RegInv', UNCHANGED <<db, changed, others>>
    PROVE  TypeInv'
BY DEF TypeInv, RowInv, Distinct, Bounded, FlagInv, others

LEMMA PickedHaveIds ==
    ASSUME RowInv
    PROVE  \A p : \A r \in Picked(p) : r \in db /\ IsRow(r) /\ r.id \in Nat
BY PickedAreRows DEF RowInv, Distinct, IsRow

LEMMA ListedHaveIds ==
    ASSUME RowInv
    PROVE  \A step, n : \A r \in PageOf(ListOf(step), n) : r \in db /\ r.id \in Nat
BY PickedHaveIds DEF PageOf, ListOf

LEMMA GetType ==
    ASSUME TypeInv, DoGet
    PROVE  TypeInv'
<1>1. StepInv /\ pc \in DOMAIN Steps /\ "id" \notin {Steps[pc].link} \cup Steps[pc].keep
  BY NowIs DEF TypeInv, DoGet, StepFits
<1>2. PICK r \in Picked(Steps[pc].pick) :
            reg' = [reg EXCEPT !.found = r, !.patch = Remembered(Steps[pc], r)]
  BY DEF DoGet
<1>3. "id" \notin DOMAIN Remembered(Steps[pc], r)
  BY <1>1 DEF TypeInv, RegInv, Remembered, Patched, NoFields
<1>4. r.id \in Nat
  BY PickedHaveIds DEF TypeInv
<1>5. RegInv'
  BY <1>2, <1>3, <1>4 DEF TypeInv, RegInv, RegFields, HasIds
<1>6. exit' \in Exits /\ faults' \in 0 .. MaxFaults /\ cmd' = cmd
  BY <1>1 DEF DoGet, End, Exits, StepInv
<1>7. pc' \in 1 .. Len(Steps) + 1
  BY <1>1, NextPlace DEF DoGet, End, StepInv
<1>8. StepInv'
  BY <1>1, <1>6, <1>7, StepKept
<1> QED
  BY <1>5, <1>8, OnlyRead DEF DoGet

LEMMA SearchType ==
    ASSUME TypeInv, DoSearch
    PROVE  TypeInv'
<1> DEFINE match == {r \in PageOf(ListOf(Steps[pc]), reg.page) : r.name = Steps[pc].pick.name}
<1>1. StepInv /\ pc \in DOMAIN Steps
  BY NowIs DEF TypeInv, DoSearch
<1>2. exit' \in Exits /\ faults' \in 0 .. MaxFaults /\ cmd' = cmd
  BY <1>1 DEF DoSearch, End, Exits, StepInv
<1>3. pc' \in 1 .. Len(Steps) + 1
  BY <1>1, NextPlace DEF DoSearch, End, StepInv
<1>4. StepInv'
  BY <1>1, <1>2, <1>3, StepKept
<1>5. \A r \in match : r.id \in Nat
  BY ListedHaveIds DEF TypeInv
<1>6. \/ \E r \in match : reg' = [reg EXCEPT !.found = r, !.page = 1]
      \/ reg' = [reg EXCEPT !.page = @ + 1]
      \/ reg' = reg
  BY DEF DoSearch
<1>7. RegInv'
  <2>1. CASE reg' = reg
    BY <2>1 DEF TypeInv, RegInv, HasIds
  <2>2. CASE reg' = [reg EXCEPT !.page = @ + 1]
    BY <2>2 DEF TypeInv, RegInv, RegFields, HasIds
  <2>3. ASSUME NEW r \in match, reg' = [reg EXCEPT !.found = r, !.page = 1] PROVE RegInv'
    <3>1. r.id \in Nat
      BY <1>5
    <3> HIDE DEF match
    <3> QED
      BY <3>1, <2>3 DEF TypeInv, RegInv, RegFields, HasIds
  <2> QED
    BY <1>6, <2>1, <2>2, <2>3
<1> QED
  BY <1>4, <1>7, OnlyRead DEF DoSearch

LEMMA CollectType ==
    ASSUME TypeInv, DoCollect
    PROVE  TypeInv'
<1> DEFINE step == Steps[pc]
           match == {r \in PageOf(ListOf(step), reg.page) : Sought(step, r)}
           last == IsLastPage(ListOf(step), reg.page)
<1>1. StepInv /\ pc \in DOMAIN Steps /\ Steps[pc].into \in {"add", "rm", "listed"}
  BY NowIs DEF TypeInv, DoCollect, StepFits
<1>2. exit' \in Exits /\ faults' \in 0 .. MaxFaults /\ cmd' = cmd
  BY <1>1 DEF DoCollect, StepInv
<1>3. pc' \in 1 .. Len(Steps) + 1
  BY <1>1, NextPlace DEF DoCollect, StepInv
<1>4. StepInv'
  BY <1>1, <1>2, <1>3, StepKept
<1>5. HasIds(match)
  BY ListedHaveIds DEF TypeInv, HasIds
<1>6. HasIds(reg[step.into])
  BY <1>1 DEF TypeInv, RegInv
<1>7. PICK m, n : /\ reg' = [reg EXCEPT ![step.into] = m, !.page = n]
                  /\ m = match \cup IF reg.page = 1 THEN {} ELSE reg[step.into]
                  /\ n = IF last THEN 1 ELSE reg.page + 1
  BY DEF DoCollect
<1>8. HasIds(m) /\ n \in Nat \ {0}
  <2>1. n \in Nat \ {0}
    <3> HIDE DEF last, match
    <3>1. n = 1 \/ n = reg.page + 1
      BY <1>7
    <3> QED
      BY <3>1 DEF TypeInv, RegInv
  <2>2. m \subseteq match \cup reg[step.into]
    BY <1>7
  <2> QED
    BY <1>5, <1>6, <2>1, <2>2 DEF HasIds
<1>9. RegInv'
  <2> HIDE DEF match, last
  <2> QED
    BY <1>1, <1>7, <1>8 DEF TypeInv, RegInv, RegFields
<1> QED
  BY <1>4, <1>9, OnlyRead DEF DoCollect

LEMMA FormType ==
    ASSUME TypeInv, DoSelect \/ DoAccept \/ DoList \/ NothingToDo
    PROVE  TypeInv'
<1>1. StepInv /\ pc \in DOMAIN Steps
  BY NowIs DEF TypeInv, DoSelect, DoAccept, DoList, NothingToDo
<1>2. cmd' = cmd /\ Proceed
  BY DEF DoSelect, DoAccept, DoList, NothingToDo
<1>3. StepInv'
  BY <1>1, <1>2, AnswerKept
<1>4. CASE DoSelect
  <2>1. PICK a, m : /\ reg' = [reg EXCEPT !.add = a, !.rm = m]
                    /\ a \subseteq reg.listed /\ m \subseteq reg.listed
    BY <1>4 DEF DoSelect, Selected
  <2>2. RegInv'
    BY <2>1 DEF TypeInv, RegInv, RegFields, HasIds
  <2> QED
    BY <1>3, <1>4, <2>2, OnlyRead DEF DoSelect
<1>5. CASE DoAccept
  <2>1. reg' = reg \/ \E n : reg' = [reg EXCEPT !.patch = Patched(reg.patch, [milestone |-> n])]
    BY <1>5 DEF DoAccept
  <2>2. \A n : "id" \notin DOMAIN Patched(reg.patch, [milestone |-> n])
    BY DEF TypeInv, RegInv, Patched
  <2>3. RegInv'
    BY <2>1, <2>2 DEF TypeInv, RegInv, RegFields, HasIds
  <2> QED
    BY <1>3, <1>5, <2>3, OnlyRead DEF DoAccept
<1>6. CASE DoList
  <2>1. PICK s : reg' = [reg EXCEPT !.shown = reg.shown \cup s] /\ \A r \in s : r.id \in Nat
    BY <1>6, PickedHaveIds DEF DoList, PageOf, TypeInv
  <2>2. RegInv'
    BY <2>1 DEF TypeInv, RegInv, RegFields, HasIds
  <2> QED
    BY <1>3, <1>6, <2>2, OnlyRead DEF DoList
<1>7. CASE NothingToDo
  BY <1>3, <1>7, NothingChanged DEF NothingToDo
<1> QED
  BY <1>4, <1>5, <1>6, <1>7

LEMMA NothingReadType == /\ DOMAIN NothingRead = RegFields
                         /\ NothingRead.found.id = 0 /\ NothingRead.patch = NoFields
                         /\ NothingRead.page = 1
                         /\ NothingRead.add = {} /\ NothingRead.rm = {}
                         /\ NothingRead.listed = {} /\ NothingRead.shown = {}
BY DEF NothingRead, RegFields, NoRow, Row

LEMMA AgainType ==
    ASSUME TypeInv, Again
    PROVE  TypeInv'
<1>1. RegInv'
  <2>1. reg' = NothingRead
    BY DEF Again
  <2>2. "id" \notin DOMAIN NoFields
    BY DEF NoFields
  <2> QED
    BY <2>1, <2>2, NothingReadType DEF RegInv, HasIds
<1>2. 1 \in 1 .. Len(Steps) + 1
  BY CommandFits DEF TypeInv
<1>3. StepInv'
  <2>1. cmd' = cmd /\ exit' \in Exits /\ faults' \in 0 .. MaxFaults /\ pc' \in 1 .. Len(Steps) + 1
    BY <1>2 DEF Again, Exits, TypeInv, StepInv
  <2> QED
    BY <2>1, StepKept DEF TypeInv
<1>4. RowInv' /\ FlagInv'
  BY DEF Again, TypeInv, RowInv, Distinct, Bounded, FlagInv, others
<1> QED
  BY <1>1, <1>3, <1>4 DEF TypeInv
----------------------------------------------------------------------------
(* Types: the steps that write.                                            *)

LEMMA WriteKept ==
    ASSUME TypeInv, StepInv', RegInv', UNCHANGED others,
           NEW rows, Write(rows), Distinct(rows),
           \A r \in rows : r.id = FreshId \/ \E s \in db : s.id = r.id
    PROVE  TypeInv'
<1>1. db' = rows /\ changed' \in BOOLEAN
  BY DEF Write
<1>2. touched' = touched /\ shifted' = shifted
  BY DEF others
<1>3. RowInv'
  BY <1>1, <1>2, RowsKept DEF TypeInv
<1>4. FlagInv'
  BY <1>1, <1>2 DEF TypeInv, FlagInv
<1> QED
  BY <1>3, <1>4 DEF TypeInv

LEMMA FewerInPlace ==
    ASSUME RowInv, NEW rows, rows \subseteq db
    PROVE  Distinct(rows) /\ \A r \in rows : \E s \in db : s.id = r.id
BY FewerRows DEF RowInv

LEMMA OneInPlace ==
    ASSUME RowInv, NEW r \in db, NEW new, IsRow(new), new.id = r.id
    PROVE  /\ Distinct((db \ {r}) \cup {new})
           /\ \A s \in (db \ {r}) \cup {new} : \E q \in db : q.id = s.id
BY DEF RowInv, Distinct

LEMMA OneMore ==
    ASSUME RowInv, NEW new, IsRow(new), new.id = FreshId
    PROVE  /\ Distinct(db \cup {new})
           /\ \A r \in db \cup {new} : r.id = FreshId \/ \E s \in db : s.id = r.id
<1>1. \A r \in db : r.id # new.id
  BY FreshIdIsNew DEF RowInv, Distinct, IsRow
<1> QED
  BY <1>1, MoreRows DEF RowInv

LEMMA EditType ==
    ASSUME TypeInv, DoEdit
    PROVE  TypeInv'
<1> DEFINE step == Steps[pc]
           some == Picked(step.pick)
           new == [r \in some |-> Patched(step.patch, Patched(reg.patch, r))]
           rows == (db \ some) \cup {new[r] : r \in some}
<1>1. StepInv /\ pc \in DOMAIN Steps /\ "id" \notin DOMAIN step.patch
  BY NowIs DEF TypeInv, DoEdit, StepFits
<1>2. StepInv'
  <2>1. cmd' = cmd /\ Answered
    BY DEF DoEdit
  <2> QED
    BY <1>1, <2>1, AnswerKept
<1>3. RegInv'
  <2>1. reg' = [reg EXCEPT !.patch = NoFields] /\ "id" \notin DOMAIN NoFields
    BY DEF DoEdit, NoFields
  <2> QED
    BY <2>1 DEF TypeInv, RegInv, RegFields, HasIds
<1>4. \A r \in some : IsRow(new[r]) /\ new[r].id = r.id
  <2> SUFFICES ASSUME NEW r \in some PROVE IsRow(new[r]) /\ new[r].id = r.id
    OBVIOUS
  <2>1. IsRow(r)
    BY PickedHaveIds DEF TypeInv
  <2>2. IsRow(Patched(reg.patch, r)) /\ Patched(reg.patch, r).id = r.id
    BY <2>1, PatchedKeepsId DEF TypeInv, RegInv
  <2> QED
    BY <2>2, <1>1, PatchedKeepsId
<1>5. Write(rows)
  BY DEF DoEdit
<1>6. some \subseteq db
  BY PickedAreRows
<1>7. Distinct(rows) /\ \A r \in rows : \E s \in db : s.id = r.id
  <2> HIDE DEF some, new
  <2>1. Distinct(db)
    BY DEF TypeInv, RowInv
  <2>2. Distinct(rows)
    BY <1>4, <1>6, <2>1 DEF Distinct
  <2>3. \A r \in rows : \E s \in db : s.id = r.id
    BY <1>4, <1>6
  <2> QED
    BY <2>2, <2>3
<1>8. UNCHANGED others
  BY DEF DoEdit
<1> HIDE DEF rows
<1> QED
  BY <1>2, <1>3, <1>5, <1>7, <1>8, WriteKept

LEMMA DeleteType ==
    ASSUME TypeInv, DoDelete
    PROVE  TypeInv'
<1>1. PICK rows : Write(rows) /\ rows \subseteq db
  BY DEF DoDelete
<1>2. StepInv'
  <2>1. pc \in DOMAIN Steps /\ cmd' = cmd /\ Answered
    BY NowIs DEF DoDelete, TypeInv
  <2> QED
    BY <2>1, AnswerKept DEF TypeInv
<1>3. RegInv'
  BY DEF DoDelete, TypeInv, RegInv, HasIds
<1>4. UNCHANGED others
  BY DEF DoDelete
<1>5. Distinct(rows) /\ \A r \in rows : \E s \in db : s.id = r.id
  BY <1>1, FewerInPlace DEF TypeInv
<1> QED
  BY <1>1, <1>2, <1>3, <1>4, <1>5, WriteKept

\* A field other than the id is set.
LEMMA FieldSet ==
    ASSUME RowInv, NEW p, NEW r \in Picked(p), NEW f, f # "id", NEW v
    PROVE  LET rows == (db \ {r}) \cup {[r EXCEPT ![f] = v]} IN
           Distinct(rows) /\ \A s \in rows : \E q \in db : q.id = s.id
<1>1. r \in db /\ IsRow(r)
  BY PickedHaveIds
<1>2. PICK new : new = [r EXCEPT ![f] = v]
  OBVIOUS
<1>3. IsRow(new) /\ new.id = r.id
  BY <1>1, <1>2 DEF IsRow, RowKeys
<1> QED
  BY <1>1, <1>2, <1>3, OneInPlace

LEMMA ChangeType ==
    ASSUME TypeInv, DoChange
    PROVE  TypeInv'
<1>1. pc \in DOMAIN Steps /\ Steps[pc].field # "id"
  BY NowIs DEF DoChange, TypeInv, StepFits
<1>2. PICK r \in Picked(Steps[pc].pick) :
          \E v : Write((db \ {r}) \cup {[r EXCEPT ![Steps[pc].field] = v]})
  BY DEF DoChange
<1>3. PICK v : Write((db \ {r}) \cup {[r EXCEPT ![Steps[pc].field] = v]})
  BY <1>2
<1>4. PICK rows : rows = (db \ {r}) \cup {[r EXCEPT ![Steps[pc].field] = v]}
  OBVIOUS
<1>5. Distinct(rows) /\ \A s \in rows : \E q \in db : q.id = s.id
  BY <1>1, <1>4, FieldSet DEF TypeInv
<1>6. StepInv'
  <2>1. cmd' = cmd /\ Answered
    BY DEF DoChange
  <2> QED
    BY <1>1, <2>1, AnswerKept DEF TypeInv
<1>7. RegInv'
  BY DEF DoChange, TypeInv, RegInv, HasIds
<1>8. UNCHANGED others
  BY DEF DoChange
<1> QED
  BY <1>3, <1>4, <1>5, <1>6, <1>7, <1>8, WriteKept

LEMMA RemoveType ==
    ASSUME TypeInv, DoRemove
    PROVE  TypeInv'
<1>1. pc \in DOMAIN Steps /\ Steps[pc].field # "id"
  BY NowIs DEF DoRemove, TypeInv, StepFits
<1>2. PICK r \in Picked(Steps[pc].pick) :
          \E v : Write((db \ {r}) \cup {[r EXCEPT ![Steps[pc].field] = v]})
  BY DEF DoRemove
<1>3. PICK v : Write((db \ {r}) \cup {[r EXCEPT ![Steps[pc].field] = v]})
  BY <1>2
<1>4. PICK rows : rows = (db \ {r}) \cup {[r EXCEPT ![Steps[pc].field] = v]}
  OBVIOUS
<1>5. Distinct(rows) /\ \A s \in rows : \E q \in db : q.id = s.id
  BY <1>1, <1>4, FieldSet DEF TypeInv
<1>6. StepInv'
  <2>1. pc' = pc /\ cmd' = cmd
    BY DEF DoRemove, End
  <2>2. exit' \in Exits /\ faults' \in 0 .. MaxFaults
    <3>1. exit \in Exits /\ faults \in 0 .. MaxFaults
      BY DEF TypeInv, StepInv
    <3>2. \/ exit' = exit /\ faults' = faults
          \/ exit' = "call" /\ faults < MaxFaults /\ faults' = faults + 1
      BY DEF DoRemove, End
    <3>3. exit' \in Exits
      BY <3>1, <3>2 DEF Exits
    <3>4. faults' \in 0 .. MaxFaults
      <4>1. CASE faults' = faults
        BY <3>1, <4>1
      <4>2. CASE faults < MaxFaults /\ faults' = faults + 1
        BY <3>1, <4>2, BoundAssumption
      <4> QED
        BY <3>2, <4>1, <4>2
    <3> QED
      BY <3>3, <3>4
  <2>3. pc' \in 1 .. Len(Steps) + 1
    BY <2>1 DEF TypeInv, StepInv
  <2> QED
    BY <2>1, <2>2, <2>3, StepKept DEF TypeInv
<1>7. RegInv'
  <2>1. PICK m : reg' = reg \/ reg' = [reg EXCEPT !.rm = reg.rm \ m]
    BY DEF DoRemove
  <2> QED
    BY <2>1 DEF TypeInv, RegInv, RegFields, HasIds
<1>8. UNCHANGED others
  BY DEF DoRemove
<1> QED
  BY <1>3, <1>4, <1>5, <1>6, <1>7, <1>8, WriteKept

\* A row that is made has the keys of one, whatever is set in it.
LEMMA PatchedHasKeys ==
    ASSUME NEW f, NEW r, RowKeys \subseteq DOMAIN r
    PROVE  RowKeys \subseteq DOMAIN Patched(f, r)
BY DEF Patched

LEMMA CreateType ==
    ASSUME TypeInv, DoCreate
    PROVE  TypeInv'
<1> DEFINE step == Steps[pc]
           same == Picked(step.pick)
           labelled == IF "labels" \in DOMAIN step.row
                       THEN [step.row EXCEPT !.labels = {l.id : l \in reg.add}] ELSE step.row
           patched == Patched(reg.patch, labelled)
           made == [patched EXCEPT !.id = FreshId, !.of = Owner(step)]
           new == [r \in same |-> [Patched(made, r) EXCEPT !.id = r.id, !.of = r.of]]
           rows == (db \ same) \cup {[Patched(made, r) EXCEPT !.id = r.id, !.of = r.of] : r \in same}
<1>1. pc \in DOMAIN Steps /\ RowKeys \subseteq DOMAIN step.row
  BY NowIs DEF DoCreate, TypeInv, StepFits, RowKeys
<1>2. StepInv'
  <2>1. cmd' = cmd /\ Answered
    BY DEF DoCreate
  <2> QED
    BY <1>1, <2>1, AnswerKept DEF TypeInv
<1>3. UNCHANGED others
  BY DEF DoCreate
<1>4. RowKeys \subseteq DOMAIN labelled
  BY <1>1
<1>5. RowKeys \subseteq DOMAIN patched
  <2> HIDE DEF labelled
  <2> QED
    BY <1>4, PatchedHasKeys
<1>6. IsRow(made) /\ made.id = FreshId
  <2> HIDE DEF patched
  <2>1. FreshId \in Nat
    BY FreshIdIsNew DEF TypeInv
  <2> QED
    BY <1>5, <2>1 DEF IsRow, RowKeys
<1>7. "id" \notin DOMAIN NoFields
  BY DEF NoFields
<1>8. CASE Write(rows) /\ reg' = [reg EXCEPT !.patch = NoFields]
  <2>1. RegInv'
    BY <1>7, <1>8 DEF TypeInv, RegInv, RegFields, HasIds
  <2>2. \A r \in same : IsRow(new[r]) /\ new[r].id = r.id
    <3> SUFFICES ASSUME NEW r \in same PROVE IsRow(new[r]) /\ new[r].id = r.id
      OBVIOUS
    <3>1. IsRow(r)
      BY PickedHaveIds DEF TypeInv
    <3>2. PICK q : q = Patched(made, r)
      OBVIOUS
    <3>3. RowKeys \subseteq DOMAIN q
      BY <3>1, <3>2, PatchedHasKeys DEF IsRow
    <3>4. new[r] = [q EXCEPT !.id = r.id, !.of = r.of]
      BY <3>2
    <3> HIDE DEF made, new
    <3> QED
      BY <3>1, <3>3, <3>4 DEF IsRow, RowKeys
  <2>3. same \subseteq db /\ Distinct(db)
    BY PickedAreRows DEF TypeInv, RowInv
  <2>4. Distinct(rows) /\ \A r \in rows : \E s \in db : s.id = r.id
    <3> HIDE DEF same, made
    <3>0. rows = (db \ same) \cup {new[r] : r \in same}
      OBVIOUS
    <3> HIDE DEF new, rows
    <3>1. Distinct(rows)
      BY <2>2, <2>3, <3>0 DEF Distinct
    <3>2. \A r \in rows : \E s \in db : s.id = r.id
      BY <2>2, <2>3, <3>0
    <3> QED
      BY <3>1, <3>2
  <2> HIDE DEF rows
  <2> QED
    BY <1>2, <1>3, <1>8, <2>1, <2>4, WriteKept
<1>9. CASE /\ Write(db \cup {made})
           /\ reg' = [reg EXCEPT !.patch = NoFields,
                                 !.found = IF step.within THEN @ ELSE made]
  <2> HIDE DEF made
  <2>1. PICK x : reg' = [reg EXCEPT !.patch = NoFields, !.found = x] /\ x \in {reg.found, made}
    BY <1>9
  <2>2. x.id \in Nat
    BY <1>6, <2>1 DEF TypeInv, RegInv, IsRow
  <2>3. RegInv'
    BY <1>7, <2>1, <2>2 DEF TypeInv, RegInv, RegFields, HasIds
  <2>4. PICK all : all = db \cup {made}
    OBVIOUS
  <2>5. /\ Distinct(all)
        /\ \A r \in all : r.id = FreshId \/ \E s \in db : s.id = r.id
    BY <1>6, <2>4, OneMore DEF TypeInv
  <2> QED
    BY <1>2, <1>3, <1>9, <2>3, <2>4, <2>5, WriteKept
<1>10. \/ Write(rows) /\ reg' = [reg EXCEPT !.patch = NoFields]
       \/ /\ Write(db \cup {made})
          /\ reg' = [reg EXCEPT !.patch = NoFields,
                                !.found = IF step.within THEN @ ELSE made]
  BY DEF DoCreate
<1> QED
  BY <1>8, <1>9, <1>10

LEMMA RequestType ==
    ASSUME TypeInv, DoRequest
    PROVE  TypeInv'
<1> DEFINE step == Steps[pc]
           some == Picked(step.pick)
           new == [r \in some |-> Patched(step.body, r)]
           patched == Patched(step.body, Row(step.pick.kind, 0, step.pick.name, 0))
           made == [patched EXCEPT !.id = FreshId]
<1>1. pc \in DOMAIN Steps /\ "id" \notin DOMAIN step.body
  BY NowIs DEF DoRequest, TypeInv, StepFits
<1>2. StepInv' /\ RegInv' /\ UNCHANGED others
  <2>1. cmd' = cmd /\ Answered /\ UNCHANGED <<reg, others>>
    BY DEF DoRequest
  <2>2. StepInv'
    BY <1>1, <2>1, AnswerKept DEF TypeInv
  <2>3. RegInv'
    BY <2>1 DEF TypeInv, RegInv, HasIds
  <2> QED
    BY <2>1, <2>2, <2>3
<1>3. PICK rows : rows = Requested(step)
  OBVIOUS
<1>4. Write(rows)
  BY <1>3 DEF DoRequest
<1>5. some \subseteq db /\ Distinct(db) /\ \A r \in some : IsRow(r)
  BY PickedHaveIds DEF TypeInv, RowInv
<1>6. \/ rows \subseteq db
      \/ rows = (db \ some) \cup {new[r] : r \in some}
      \/ rows = db \cup {made}
  BY <1>3 DEF Requested
<1>7. CASE rows \subseteq db
  <2>1. Distinct(rows) /\ \A r \in rows : \E s \in db : s.id = r.id
    BY <1>7, FewerInPlace DEF TypeInv
  <2> QED
    BY <1>2, <1>4, <2>1, WriteKept
<1>8. CASE rows = (db \ some) \cup {new[r] : r \in some}
  <2>1. \A r \in some : IsRow(new[r]) /\ new[r].id = r.id
    BY <1>1, <1>5, PatchedKeepsId
  <2> HIDE DEF some, new
  <2>2. Distinct(rows)
    BY <1>8, <1>5, <2>1 DEF Distinct
  <2>3. \A r \in rows : \E s \in db : s.id = r.id
    BY <1>8, <1>5, <2>1
  <2> QED
    BY <1>2, <1>4, <2>2, <2>3, WriteKept
<1>9. CASE rows = db \cup {made}
  <2>1. RowKeys \subseteq DOMAIN patched
    BY PatchedHasKeys DEF Row, RowKeys
  <2>2. IsRow(made) /\ made.id = FreshId
    <3> HIDE DEF patched
    <3> QED
      BY <2>1, FreshIdIsNew DEF IsRow, RowKeys, TypeInv
  <2> HIDE DEF made
  <2>3. /\ Distinct(rows)
        /\ \A r \in rows : r.id = FreshId \/ \E s \in db : s.id = r.id
    BY <1>9, <2>2, OneMore DEF TypeInv
  <2> QED
    BY <1>2, <1>4, <2>3, WriteKept
<1> QED
  BY <1>6, <1>7, <1>8, <1>9
----------------------------------------------------------------------------
(* Types: other users.                                                     *)

\* What others set in a row is neither its id nor its kind, nor its owner.
LEMMA OthersKeep ==
    ASSUME StepInv, NEW r \in db, r.kind \in Concerned, IsRow(r)
    PROVE  LET theirs == Patched(OthersPatch[r.kind], r) IN
           IsRow(theirs) /\ theirs.id = r.id /\ theirs.kind = r.kind /\ theirs.of = r.of
<1>1. r.kind \in DOMAIN OthersPatch
  BY CommandFits DEF Concerned, StepFits
<1>2. {"id", "kind", "of"} \cap DOMAIN OthersPatch[r.kind] = {}
  BY <1>1, OthersAssumption
<1> QED
  BY <1>2 DEF Patched, IsRow, RowKeys

LEMMA OthersType ==
    ASSUME TypeInv, UNCHANGED <<cmd, pc, reg, exit, changed, faults>>, shifted' \in BOOLEAN,
           Distinct(db'), \A t \in touched' : t.id \in Nat,
           \A r \in db' \cup touched' : r.id = FreshId \/ \E s \in db \cup touched : s.id = r.id
    PROVE  TypeInv'
<1>1. \A r \in db \cup touched : r.id \in Nat
  BY DEF TypeInv, RowInv, Distinct, IsRow
<1>2. Bounded(db' \cup touched')
  BY <1>1, BoundKept, FreshIdIsNew DEF TypeInv, RowInv
<1>3. RowInv'
  BY <1>2 DEF RowInv
<1>4. StepInv' /\ RegInv' /\ FlagInv'
  BY DEF TypeInv, StepInv, Steps, RegInv, HasIds, FlagInv
<1> QED
  BY <1>3, <1>4 DEF TypeInv

LEMMA OtherChangesType ==
    ASSUME TypeInv, OtherChanges
    PROVE  TypeInv'
<1>1. UNCHANGED <<cmd, pc, reg, exit, changed, faults>> /\ shifted' \in BOOLEAN
  BY DEF OtherChanges, TypeInv, FlagInv
<1>2. PICK r \in db :
          /\ r.kind \in Concerned
          /\ \/ /\ db' = {s \in db : s # r /\ s.of # r.id}
                /\ touched' = touched \cup (db \ db')
             \/ /\ touched' = touched \cup {r}
                /\ db' = (db \ {r}) \cup {Patched(OthersPatch[r.kind], r)}
  BY DEF OtherChanges
<1>3. /\ \A s \in db : IsRow(s) /\ s.id \in Nat
      /\ \A t \in touched : t.id \in Nat
  BY DEF TypeInv, RowInv, Distinct, IsRow
<1>4. CASE /\ db' = {s \in db : s # r /\ s.of # r.id}
           /\ touched' = touched \cup (db \ db')
  <2>1. Distinct(db')
    BY <1>4, FewerRows DEF TypeInv, RowInv
  <2>2. /\ \A t \in touched' : t.id \in Nat
        /\ \A s \in db' \cup touched' : \E q \in db \cup touched : q.id = s.id
    BY <1>3, <1>4
  <2> QED
    BY <1>1, <2>1, <2>2, OthersType
<1>5. CASE /\ touched' = touched \cup {r}
           /\ db' = (db \ {r}) \cup {Patched(OthersPatch[r.kind], r)}
  <2>1. PICK new : new = Patched(OthersPatch[r.kind], r)
    OBVIOUS
  <2>2. IsRow(new) /\ new.id = r.id
    BY <1>2, <1>3, <2>1, OthersKeep DEF TypeInv
  <2>3. db' = (db \ {r}) \cup {new}
    BY <1>5, <2>1
  <2>4. Distinct(db')
    BY <2>2, <2>3, OneInPlace DEF TypeInv
  <2>5. /\ \A t \in touched' : t.id \in Nat
        /\ \A s \in db' \cup touched' : \E q \in db \cup touched : q.id = s.id
    BY <1>3, <1>5, <2>2, <2>3
  <2> QED
    BY <1>1, <2>4, <2>5, OthersType
<1> QED
  BY <1>2, <1>4, <1>5

\* What others make has an id of its own, and they have touched it.
LEMMA NewOfOthers ==
    ASSUME TypeInv, OtherCreates
    PROVE  \E new : /\ IsRow(new) /\ new.id = FreshId
                    /\ db' = db \cup {new} /\ touched' = touched \cup {new}
<1>1. PICK r \in Rows :
          LET new == [Patched(OthersPatch[r.kind], r) EXCEPT !.id = FreshId, !.name = "theirs"] IN
          db' = db \cup {new} /\ touched' = touched \cup {new}
  BY DEF OtherCreates
<1>2. PICK patched : patched = Patched(OthersPatch[r.kind], r)
  OBVIOUS
<1>3. PICK new : new = [patched EXCEPT !.id = FreshId, !.name = "theirs"]
  OBVIOUS
<1>4. db' = db \cup {new} /\ touched' = touched \cup {new}
  BY <1>1, <1>2, <1>3
<1>5. RowKeys \subseteq DOMAIN patched
  BY <1>2, RowsAssumption, PatchedHasKeys DEF RowKeys
<1>6. IsRow(new) /\ new.id = FreshId
  BY <1>3, <1>5, FreshIdIsNew DEF IsRow, RowKeys, TypeInv
<1> QED
  BY <1>4, <1>6

LEMMA OtherCreatesType ==
    ASSUME TypeInv, OtherCreates
    PROVE  TypeInv'
<1>1. PICK new : /\ IsRow(new) /\ new.id = FreshId
                 /\ db' = db \cup {new} /\ touched' = touched \cup {new}
  BY NewOfOthers
<1>2. UNCHANGED <<cmd, pc, reg, exit, changed, faults>> /\ shifted' \in BOOLEAN
  BY DEF OtherCreates, TypeInv, FlagInv
<1>3. Distinct(db')
  BY <1>1, OneMore DEF TypeInv
<1>4. /\ \A t \in touched' : t.id \in Nat
      /\ \A s \in db' \cup touched' : s.id = FreshId \/ \E q \in db \cup touched : q.id = s.id
  BY <1>1 DEF TypeInv, RowInv, IsRow
<1> QED
  BY <1>2, <1>3, <1>4, OthersType

LEMMA InitType == Init => TypeInv
<1> SUFFICES ASSUME Init PROVE TypeInv
  OBVIOUS
<1>1. RowInv
  <2>1. Distinct(db)
    BY RowsAssumption DEF Init, Distinct, IsRow, RowKeys
  <2>2. Bounded(db \cup touched)
    BY RowsAssumption, FiniteIsBounded DEF Init
  <2> QED
    BY <2>1, <2>2 DEF RowInv, Init
<1>2. StepInv
  <2>1. PICK c \in DOMAIN Commands : cmd = Commands[c]
    BY DEF Init
  <2>2. Len(Steps) \in Nat
    BY <2>1, CommandsAssumption DEF Steps
  <2> QED
    <3>0. pc = 1 /\ faults = 0 /\ exit = ""
      BY DEF Init
    <3>1. 1 \in 1 .. Len(Steps) + 1 /\ 0 \in 0 .. MaxFaults /\ "" \in Exits
      BY <2>2, BoundAssumption DEF Exits
    <3>2. pc \in 1 .. Len(Steps) + 1 /\ faults \in 0 .. MaxFaults /\ exit \in Exits
      BY <3>0, <3>1
    <3> QED
      BY <2>1, <3>1, <3>2 DEF StepInv
<1>3. RegInv
  <2>1. reg = NothingRead
    BY DEF Init
  <2>2. "id" \notin DOMAIN NoFields
    BY DEF NoFields
  <2> QED
    BY <2>1, <2>2, NothingReadType DEF RegInv, HasIds
<1>4. FlagInv
  BY DEF Init, FlagInv
<1> QED
  BY <1>1, <1>2, <1>3, <1>4 DEF TypeInv

LEMMA TypeInvariance == Spec => []TypeInv
<1>1. TypeInv /\ [Next]_vars => TypeInv'
  <2> SUFFICES ASSUME TypeInv, [Next]_vars PROVE TypeInv'
    OBVIOUS
  <2>1. CASE Step
    BY <2>1, GetType, SearchType, CollectType, EditType, CreateType, DeleteType, ChangeType,
       RemoveType, FormType, RequestType, AskType, StopType, MissingType DEF Step
  <2>2. CASE UNCHANGED vars
    <3>1. StepInv'
      BY <2>2 DEF vars, TypeInv, StepInv, Steps
    <3> QED
      BY <2>2, <3>1, NothingChanged DEF vars, others
  <2> QED
    BY <2>1, <2>2, LostType, AgainType, OtherChangesType, OtherCreatesType DEF Next
<1> QED
  BY <1>1, InitType, PTL DEF Spec

\* Whatever a command and other users do, the ids of the rows stay distinct,
\* no step leads out of the command, and all that was read is a row.
THEOREM CommandTypeCorrect == Spec => []TypeOK
<1>1. TypeInv => TypeOK
  BY DEF TypeInv, RowInv, Distinct, IsRow, RowKeys, StepInv, RegInv, HasIds, FlagInv, TypeOK
<1> QED
  BY <1>1, TypeInvariance, PTL
----------------------------------------------------------------------------
(* The pages of a list, which a search or a collection goes through.       *)

\* Pages after the first are read by the two steps that go through a list.
OnFirstPage == exit = "" /\ reg.page # 1 => Now("search") \/ Now("collect")

Wanted(r) == r.kind = Steps[pc].pick.kind /\ r.name = Steps[pc].pick.name
Touched(r) == \E t \in touched : t.id = r.id

\* The place of a row in the list is behind the pages that were read.
Ahead(r) == (reg.page - 1) * PageSize < Place(r, ListOf(Steps[pc]))

\* What is looked for is not on the pages that were read, and what is
\* collected is, or was taken from them: nothing before it went, and new rows
\* come last.
NotPassed ==
    Now("search") /\ ~shifted => \A r \in db : Wanted(r) /\ ~Touched(r) => Ahead(r)
TakenOrAhead ==
    Now("collect") /\ ~shifted =>
        \A r \in ListOf(Steps[pc]) :
            Sought(Steps[pc], r) /\ ~Touched(r) => r \in reg[Steps[pc].into] \/ Ahead(r)

PagesInv == OnFirstPage /\ NotPassed /\ TakenOrAhead /\ FoundUnlessShifted

LEMMA FiniteRows ==
    ASSUME NEW rows, Distinct(rows), Bounded(rows)
    PROVE  IsFiniteSet(rows)
<1> DEFINE ids == {r.id : r \in rows}
           f == [r \in rows |-> r.id]
<1>1. PICK n \in Nat : \A r \in rows : r.id <= n
  BY DEF Bounded
<1>2. ids \in SUBSET Nat /\ \A i \in ids : i <= n
  BY <1>1 DEF Distinct, IsRow
<1>3. IsFiniteSet(ids)
  <2> HIDE DEF ids
  <2> QED
    BY <1>2, FS_BoundedSetOfNaturals
<1>4. f \in Injection(rows, ids)
  BY DEF Injection, IsInjective, Distinct
<1> HIDE DEF f, ids
<1> QED
  BY <1>3, <1>4, FS_Injection

\* Rows with the same ids are as many.
LEMMA SameIdsSameSize ==
    ASSUME NEW A, NEW B, IsFiniteSet(A), Distinct(A), Distinct(B),
           \A a \in A : \E b \in B : b.id = a.id,
           \A b \in B : \E a \in A : a.id = b.id
    PROVE  Cardinality(B) = Cardinality(A)
<1> DEFINE f == [a \in A |-> CHOOSE b \in B : b.id = a.id]
<1>1. \A a \in A : f[a] \in B /\ f[a].id = a.id
  OBVIOUS
<1>2. f \in [A -> B]
  BY <1>1
<1>3. f \in Injection(A, B)
  <2>1. \A a, b \in A : f[a] = f[b] => a = b
    <3> HIDE DEF f
    <3> QED
      BY <1>1 DEF Distinct
  <2> HIDE DEF f
  <2> QED
    BY <1>2, <2>1 DEF Injection, IsInjective
<1>4. f \in Surjection(A, B)
  <2>1. \A b \in B : \E a \in A : f[a] = b
    <3> HIDE DEF f
    <3> QED
      BY <1>1 DEF Distinct
  <2> HIDE DEF f
  <2> QED
    BY <1>2, <2>1 DEF Surjection
<1>5. ExistsBijection(A, B)
  BY <1>3, <1>4 DEF ExistsBijection, Bijection
<1> QED
  BY <1>5, FS_Bijection

\* The rows of the list, and those of them up to one.
InList(s) == s.kind = Steps[pc].pick.kind /\ (Steps[pc].within => s.of = reg.found.id)
UpTo(rows, r) == {s \in rows : InList(s) /\ s.id <= r.id}

LEMMA ListIs == ListOf(Steps[pc]) = {s \in db : InList(s)}
<1>1. \A k : Picked(All(k, NoFields)) = {r \in db : r.kind = k}
  BY DEF Picked, All, Pick, Among, NoFields
<1> QED
  BY <1>1 DEF ListOf, InList

\* A search goes through all rows of a kind.
LEMMA WantedIsListed ==
    TypeInv /\ Now("search") => \A r \in db : Wanted(r) => r \in ListOf(Steps[pc])
<1> SUFFICES ASSUME TypeInv, Now("search"), NEW r \in db, Wanted(r)
             PROVE  r \in ListOf(Steps[pc])
  OBVIOUS
<1>1. ~Steps[pc].within
  BY NowIs DEF TypeInv, StepFits
<1> QED
  BY <1>1, ListIs DEF InList, Wanted

LEMMA PlaceIs ==
    TypeInv =>
        \A r \in ListOf(Steps[pc]) :
            /\ Place(r, ListOf(Steps[pc])) = Cardinality(UpTo(db, r))
            /\ Place(r, ListOf(Steps[pc])) \in Nat
            /\ Place(r, ListOf(Steps[pc])) > 0
            /\ Cardinality(ListOf(Steps[pc])) \in Nat
            /\ Place(r, ListOf(Steps[pc])) <= Cardinality(ListOf(Steps[pc]))
<1> DEFINE list == ListOf(Steps[pc])
<1> SUFFICES ASSUME TypeInv, NEW r \in list
             PROVE  /\ Place(r, list) = Cardinality(UpTo(db, r))
                    /\ Place(r, list) \in Nat /\ Place(r, list) > 0
                    /\ Cardinality(list) \in Nat /\ Place(r, list) <= Cardinality(list)
  OBVIOUS
<1>1. list \subseteq db /\ \A s \in list : s \in db /\ InList(s)
  BY ListIs
<1>2. IsFiniteSet(list)
  BY <1>1, FiniteRows, FS_Subset DEF TypeInv, RowInv, Bounded
<1>3. {s \in list : s.id <= r.id} = UpTo(db, r)
  BY ListIs DEF UpTo
<1>4. r \in UpTo(db, r)
  BY <1>1 DEF UpTo, TypeInv, RowInv, Distinct, IsRow
<1>5. UpTo(db, r) \subseteq list /\ UpTo(db, r) # {}
  BY <1>3, <1>4
<1>6. Place(r, list) = Cardinality(UpTo(db, r))
  BY <1>3 DEF Place
<1> HIDE DEF list
<1>7. /\ Cardinality(UpTo(db, r)) \in Nat /\ Cardinality(UpTo(db, r)) # 0
      /\ Cardinality(list) \in Nat /\ Cardinality(UpTo(db, r)) <= Cardinality(list)
  BY <1>2, <1>5, FS_Subset, FS_CardinalityType, FS_EmptySet
<1> QED
  BY <1>6, <1>7

\* The first page has nothing behind it.
LEMMA FirstPage == TypeInv /\ reg.page = 1 => NotPassed /\ TakenOrAhead
<1> SUFFICES ASSUME TypeInv, reg.page = 1 PROVE NotPassed /\ TakenOrAhead
  OBVIOUS
<1>1. (reg.page - 1) * PageSize = 0
  BY PageSizeAssumption
<1>2. \A r \in ListOf(Steps[pc]) : Ahead(r)
  BY <1>1, PlaceIs DEF Ahead
<1>3. NotPassed
  BY <1>2, WantedIsListed DEF NotPassed
<1> QED
  BY <1>2, <1>3 DEF TakenOrAhead

LEMMA AtFirstPage ==
    ASSUME TypeInv', reg'.page = 1,
           exit' # "missing" \/ (cmd' = cmd /\ pc' = pc /\ Steps[pc].op # "search")
    PROVE  PagesInv'
<1>1. (TypeInv /\ reg.page = 1 => NotPassed /\ TakenOrAhead)'
  BY FirstPage, PTL
<1>2. NotPassed' /\ TakenOrAhead'
  BY <1>1
<1>3. OnFirstPage'
  BY DEF OnFirstPage
<1>4. FoundUnlessShifted'
  BY DEF FoundUnlessShifted, Steps
<1> QED
  BY <1>2, <1>3, <1>4 DEF PagesInv

\* A call that is lost ends the command, on whatever page it was.
LEMMA CallFailed ==
    ASSUME exit' = "call"
    PROVE  PagesInv'
BY DEF PagesInv, OnFirstPage, NotPassed, TakenOrAhead, FoundUnlessShifted, Now

\* All other steps are taken on the first page and leave it at that.
LEMMA ElsewhereFirst ==
    ASSUME StepInv, OnFirstPage, exit = "", NEW op,
           Now(op), op \notin {"search", "collect"}
    PROVE  reg.page = 1
BY DEF OnFirstPage, Now

LEMMA OtherStepsFirst ==
    ASSUME TypeInv, TypeInv', PagesInv,
           \/ DoEdit \/ DoCreate \/ DoDelete \/ DoChange \/ DoRemove \/ NothingToDo
           \/ DoSelect \/ DoAccept \/ DoList \/ DoRequest
    PROVE  PagesInv'
<1>1. exit' \in {"", "call"}
  <2>1. ASSUME Proceed \/ Answered PROVE exit' \in {"", "call"}
    BY <2>1 DEF Answered, Proceed, End
  <2>2. CASE DoRemove
    BY <2>2 DEF DoRemove, End, Now
  <2> QED
    BY <2>1, <2>2 DEF DoEdit, DoCreate, DoDelete, DoChange, NothingToDo, DoSelect, DoAccept, DoList,
         DoRequest
<1>2. \E op : Now(op) /\ op \notin {"search", "collect"}
  <2>1. \/ Now("edit") \/ Now("create") \/ Now("delete") \/ Now("change") \/ Now("add")
        \/ Now("remove") \/ Now("select") \/ Now("accept") \/ Now("list") \/ Now("try")
        \/ Now("request")
    BY Zenon DEF DoEdit, DoCreate, DoDelete, DoChange, DoRemove, NothingToDo, DoSelect, DoAccept,
                 DoList, DoRequest
  <2> QED
    BY <2>1
<1>3. reg.page = 1
  BY <1>2, ElsewhereFirst DEF TypeInv, PagesInv, Now
<1>4. reg'.page = reg.page
  <2>1. "page" \in DOMAIN reg
    BY DEF TypeInv, RegInv, RegFields
  <2>2. CASE DoDelete \/ DoChange \/ NothingToDo \/ DoRequest
    BY <2>2 DEF DoDelete, DoChange, NothingToDo, DoRequest
  <2>3. CASE DoEdit
    BY <2>1, <2>3 DEF DoEdit
  <2>4. CASE DoCreate
    <3>1. \/ reg' = [reg EXCEPT !.patch = NoFields]
          \/ \E r : reg' = [reg EXCEPT !.patch = NoFields, !.found = r]
      BY <2>4, Zenon DEF DoCreate
    <3> QED
      BY <2>1, <3>1
  <2>5. CASE DoRemove
    <3>1. reg' = reg \/ \E s : reg' = [reg EXCEPT !.rm = s]
      BY <2>5, Zenon DEF DoRemove
    <3> QED
      BY <2>1, <3>1
  <2>6. CASE DoSelect
    <3>1. \E s, t : reg' = [reg EXCEPT !.add = s, !.rm = t]
      BY <2>6, Zenon DEF DoSelect
    <3> QED
      BY <2>1, <3>1
  <2>7. CASE DoAccept
    <3>1. reg' = reg \/ \E p : reg' = [reg EXCEPT !.patch = p]
      BY <2>7, Zenon DEF DoAccept
    <3> QED
      BY <2>1, <3>1
  <2>8. CASE DoList
    <3>1. \E s : reg' = [reg EXCEPT !.shown = s]
      BY <2>8, Zenon DEF DoList
    <3> QED
      BY <2>1, <3>1
  <2> QED
    BY <2>2, <2>3, <2>4, <2>5, <2>6, <2>7, <2>8
<1> QED
  BY <1>1, <1>3, <1>4, AtFirstPage

\* The steps that may end the command do not search.
LEMMA EndingStepsFirst ==
    ASSUME TypeInv, TypeInv', PagesInv,
           DoGet \/ DoAsk \/ DoStop \/ Missing \/ UserUnknown \/ Exists \/ Finish
    PROVE  PagesInv'
<1>0. "page" \in DOMAIN reg /\ Len(Steps) + 1 \notin DOMAIN Steps
  BY CommandFits DEF TypeInv, RegInv, RegFields
<1>1. CASE Finish
  <2>1. exit = "" /\ pc = Len(Steps) + 1 /\ reg' = reg /\ exit' = "ok"
    BY <1>1 DEF Finish, End
  <2>2. ~Now("search") /\ ~Now("collect")
    BY <1>0, <2>1 DEF Now
  <2>3. reg.page = 1
    BY <2>1, <2>2 DEF PagesInv, OnFirstPage
  <2> QED
    BY <2>1, <2>3, AtFirstPage
<1>2. CASE DoGet
  <2>1. Now("get") /\ reg.page = 1
    BY <1>2, ElsewhereFirst DEF DoGet, TypeInv, PagesInv, Now
  <2>2. \E r, p : reg' = [reg EXCEPT !.found = r, !.patch = p]
    BY <1>2, Zenon DEF DoGet
  <2>3. exit' = "" \/ exit' = "usage"
    BY <1>2 DEF DoGet, End, Now
  <2>4. reg'.page = 1
    BY <1>0, <2>1, <2>2
  <2> QED
    BY <2>3, <2>4, AtFirstPage
<1>3. CASE DoAsk \/ DoStop \/ Missing \/ UserUnknown \/ Exists
  <2>1. \E op : Now(op) /\ op \notin {"search", "collect"}
    BY <1>3 DEF DoAsk, DoStop, Missing, UserUnknown, Exists, Refused
  <2>2. reg.page = 1 /\ reg' = reg /\ cmd' = cmd
    BY <1>3, <2>1, ElsewhereFirst DEF DoAsk, DoStop, Missing, UserUnknown, Exists, Refused, TypeInv, PagesInv, Now
  <2>3. exit' = "" \/ pc' = pc
    BY <1>3 DEF DoAsk, DoStop, Missing, UserUnknown, Exists, Refused, End, Proceed, Now
  <2>4. Steps[pc].op # "search"
    BY <2>1 DEF Now
  <2> QED
    BY <2>2, <2>3, <2>4, AtFirstPage
<1> QED
  BY <1>1, <1>2, <1>3


\* A row ahead that is not on the page that was read is on a later one.
LEMMA Behind ==
    ASSUME TypeInv, NEW r \in ListOf(Steps[pc]), Ahead(r),
           r \notin PageOf(ListOf(Steps[pc]), reg.page)
    PROVE  /\ reg.page * PageSize < Place(r, ListOf(Steps[pc]))
           /\ ~IsLastPage(ListOf(Steps[pc]), reg.page)
<1> DEFINE list == ListOf(Steps[pc])
<1>1. ~(Place(r, list) <= reg.page * PageSize)
  BY DEF PageOf, Ahead
<1>2. /\ Place(r, list) \in Nat /\ Cardinality(list) \in Nat
      /\ Place(r, list) <= Cardinality(list)
  BY PlaceIs
<1>3. reg.page * PageSize \in Nat
  BY PageSizeAssumption DEF TypeInv, RegInv
<1> HIDE DEF list
<1>4. reg.page * PageSize < Place(r, list) /\ ~(reg.page * PageSize >= Cardinality(list))
  BY <1>1, <1>2, <1>3
<1> QED
  BY <1>4 DEF IsLastPage, list

\* It is ahead of the next page too.
LEMMA NextPage ==
    ASSUME TypeInv, UNCHANGED <<db, cmd, pc>>, reg'.page = reg.page + 1, reg'.found.id = reg.found.id,
           NEW r, reg.page * PageSize < Place(r, ListOf(Steps[pc]))
    PROVE  Ahead(r)'
<1>1. (ListOf(Steps[pc]) = {s \in db : InList(s)})'
  BY ListIs, PTL
<1>2. ListOf(Steps[pc])' = ListOf(Steps[pc])
  BY <1>1, ListIs DEF InList, Steps
<1>3. Place(r, ListOf(Steps[pc]))' = Place(r, ListOf(Steps[pc]))
  BY <1>2 DEF Place
<1>4. reg'.page - 1 = reg.page
  BY DEF TypeInv, RegInv
<1> QED
  BY <1>3, <1>4 DEF Ahead

LEMMA SearchFinds ==
    ASSUME TypeInv, TypeInv', PagesInv, DoSearch
    PROVE  PagesInv'
<1> DEFINE list == ListOf(Steps[pc])
           match == {r \in PageOf(list, reg.page) : r.name = Steps[pc].pick.name}
<1>1. Now("search") /\ UNCHANGED <<db, cmd, changed, faults, others>>
  BY DEF DoSearch
<1>2. \/ match # {} /\ (\E r \in match : reg' = [reg EXCEPT !.found = r, !.page = 1])
                    /\ UNCHANGED exit
      \/ match = {} /\ reg' = [reg EXCEPT !.page = @ + 1] /\ UNCHANGED <<pc, exit>>
      \/ match = {} /\ IsLastPage(list, reg.page) /\ End("missing") /\ UNCHANGED reg
  BY DEF DoSearch
<1>3. exit = "" /\ {"page", "found"} \subseteq DOMAIN reg
  BY <1>1 DEF Now, TypeInv, RegInv, RegFields
<1>4. ASSUME match = {}, ~shifted, NEW r \in db, Wanted(r), ~Touched(r)
      PROVE  reg.page * PageSize < Place(r, list) /\ ~IsLastPage(list, reg.page)
  <2>1. r \notin PageOf(list, reg.page)
    BY <1>4 DEF Wanted
  <2>2. r \in list
    BY <1>1, <1>4, WantedIsListed
  <2>3. Ahead(r)
    BY <1>1, <1>4 DEF PagesInv, NotPassed
  <2> QED
    BY <2>1, <2>2, <2>3, Behind
<1>5. CASE UNCHANGED exit /\ \E r \in match : reg' = [reg EXCEPT !.found = r, !.page = 1]
  <2>1. reg'.page = 1
    <3> HIDE DEF match
    <3> QED
      BY <1>3, <1>5
  <2> QED
    BY <1>3, <1>5, <2>1, AtFirstPage
<1>6. CASE match = {} /\ reg' = [reg EXCEPT !.page = @ + 1] /\ UNCHANGED <<pc, exit>>
  <2>1. reg'.page = reg.page + 1 /\ reg'.found = reg.found
    BY <1>3, <1>6
  <2>2. OnFirstPage' /\ FoundUnlessShifted' /\ TakenOrAhead'
    BY <1>1, <1>3, <1>6 DEF OnFirstPage, FoundUnlessShifted, TakenOrAhead, Now, Steps
  <2>3. ASSUME ~shifted', NEW r \in db', Wanted(r)', ~Touched(r)'
        PROVE  Ahead(r)'
    <3>1. ~shifted /\ r \in db /\ Wanted(r) /\ ~Touched(r)
      BY <1>1, <1>6, <2>3 DEF Wanted, Touched, others, Steps
    <3>2. reg.page * PageSize < Place(r, list)
      BY <1>4, <1>6, <3>1
    <3> QED
      BY <1>1, <1>6, <2>1, <3>2, NextPage
  <2>4. NotPassed'
    BY <2>3 DEF NotPassed
  <2> QED
    BY <2>2, <2>4 DEF PagesInv
<1>7. CASE match = {} /\ IsLastPage(list, reg.page) /\ End("missing") /\ UNCHANGED reg
  <2>1. exit' = "missing" /\ pc' = pc
    BY <1>7 DEF End
  <2>2. \A r \in db : Wanted(r) => shifted \/ Touched(r)
    BY <1>4, <1>7
  <2>3. FoundUnlessShifted'
    BY <1>1, <2>1, <2>2 DEF FoundUnlessShifted, Wanted, Touched, others, Steps
  <2>4. OnFirstPage' /\ NotPassed' /\ TakenOrAhead'
    BY <2>1 DEF OnFirstPage, NotPassed, TakenOrAhead, Now
  <2> QED
    BY <2>3, <2>4 DEF PagesInv
<1> QED
  BY <1>2, <1>5, <1>6, <1>7

\* A page is added to what was collected.  What was sought and is not there
\* then is on a later page, which there is none of after the last.
LEMMA Collected ==
    ASSUME TypeInv, PagesInv, DoCollect, ~shifted,
           NEW r \in ListOf(Steps[pc]), Sought(Steps[pc], r), ~Touched(r)
    PROVE  \/ r \in reg'[Steps[pc].into]
           \/ /\ reg.page * PageSize < Place(r, ListOf(Steps[pc]))
              /\ ~IsLastPage(ListOf(Steps[pc]), reg.page)
<1> DEFINE step == Steps[pc]
           list == ListOf(step)
           match == {s \in PageOf(list, reg.page) : Sought(step, s)}
<1>1. Now("collect")
  BY DEF DoCollect
<1>2. step.into \in DOMAIN reg /\ step.into # "page"
  BY <1>1, NowIs DEF TypeInv, RegInv, RegFields, StepFits
<1>3. reg'[step.into] = match \cup IF reg.page = 1 THEN {} ELSE reg[step.into]
  <2>1. \E n : reg' = [reg EXCEPT ![step.into] = match \cup IF reg.page = 1 THEN {} ELSE @, !.page = n]
    BY Zenon DEF DoCollect
  <2> HIDE DEF match, step
  <2> QED
    BY <1>2, <2>1
<1>4. r \in reg[step.into] \/ Ahead(r)
  BY <1>1 DEF PagesInv, TakenOrAhead
<1>5. reg.page = 1 => Ahead(r)
  <2>1. (1 - 1) * PageSize = 0
    BY PageSizeAssumption
  <2>2. Place(r, list) > 0
    BY PlaceIs
  <2> QED
    BY <2>1, <2>2 DEF Ahead
<1>6. CASE Ahead(r)
  <2>1. CASE r \in PageOf(list, reg.page)
    BY <1>3, <2>1
  <2>2. CASE r \notin PageOf(list, reg.page)
    BY <1>6, <2>2, Behind
  <2> QED
    BY <2>1, <2>2
<1>7. CASE ~Ahead(r)
  BY <1>3, <1>4, <1>5, <1>7
<1> QED
  BY <1>6, <1>7

LEMMA CollectKeeps ==
    ASSUME TypeInv, TypeInv', PagesInv, DoCollect
    PROVE  PagesInv'
<1> DEFINE step == Steps[pc]
           last == IsLastPage(ListOf(step), reg.page)
<1>1. /\ Now("collect") /\ UNCHANGED <<db, cmd, exit, others>>
      /\ pc' = IF last THEN pc + 1 ELSE pc
  BY DEF DoCollect
<1>2. /\ {"page", "found", step.into} \subseteq DOMAIN reg
      /\ step.into \notin {"page", "found"} /\ exit = ""
  BY <1>1, NowIs DEF TypeInv, RegInv, RegFields, StepFits, Now
<1>3. \E m : reg' = [reg EXCEPT ![step.into] = m, !.page = IF last THEN 1 ELSE @ + 1]
  BY Zenon DEF DoCollect
<1>4. CASE last
  <2>1. reg'.page = 1
    <3> HIDE DEF last, step
    <3> QED
      BY <1>2, <1>3, <1>4
  <2> QED
    BY <1>1, <1>2, <2>1, AtFirstPage
<1>5. CASE ~last
  <2>1. Now("collect")' /\ ~Now("search")' /\ exit' = "" /\ Steps' = Steps /\ pc' = pc
    BY <1>1, <1>2, <1>5 DEF Now, Steps
  <2>2. reg'.page = reg.page + 1 /\ reg'.found = reg.found
    <3> HIDE DEF last, step
    <3> QED
      BY <1>2, <1>3, <1>5
  <2>3. ListOf(Steps[pc])' = ListOf(Steps[pc])
    <3>1. (ListOf(Steps[pc]) = {s \in db : InList(s)})'
      BY ListIs, PTL
    <3> QED
      BY <1>1, <2>1, <2>2, <3>1, ListIs DEF InList
  <2>4. ASSUME ~shifted', NEW r \in ListOf(Steps[pc])', Sought(Steps[pc], r)', ~Touched(r)'
        PROVE  r \in reg'[Steps[pc].into] \/ Ahead(r)'
    <3>1. ~shifted /\ r \in ListOf(Steps[pc]) /\ Sought(Steps[pc], r) /\ ~Touched(r)
      BY <1>1, <2>1, <2>3, <2>4 DEF Sought, Touched, others
    <3>2. CASE r \in reg'[Steps[pc].into]
      BY <3>2
    <3>3. CASE reg.page * PageSize < Place(r, ListOf(Steps[pc]))
      BY <1>1, <2>1, <2>2, <3>3, NextPage
    <3> QED
      BY <3>1, <3>2, <3>3, Collected
  <2>5. TakenOrAhead'
    BY <2>1, <2>4 DEF TakenOrAhead
  <2> QED
    BY <2>1, <2>5 DEF PagesInv, OnFirstPage, NotPassed, FoundUnlessShifted
<1> QED
  BY <1>4, <1>5

----------------------------------------------------------------------------
(* Other users: they may not move a row of the list to a page before.      *)

\* A place is kept when the same ids come before it.
LEMMA OthersKeepPlaces ==
    ASSUME TypeInv, TypeInv', PagesInv, UNCHANGED <<cmd, pc, reg, exit>>,
           touched \subseteq touched', shifted' = shifted,
           ASSUME NEW r \in db, r \in db', ~Touched(r)'
           PROVE  Cardinality(UpTo(db', r)) = Cardinality(UpTo(db, r)),
           \A r \in db' : r \in db \/ Touched(r)'
    PROVE  NotPassed' /\ TakenOrAhead'
<1>1. /\ Steps' = Steps /\ (Now("search"))' = Now("search") /\ (Now("collect"))' = Now("collect")
      /\ Steps[pc]' = Steps[pc]
  BY DEF Steps, Now
<1>2. \A s : InList(s)' = InList(s)
  BY <1>1, Zenon DEF InList
<1>3. (ListOf(Steps[pc]) = {s \in db : InList(s)})'
  BY ListIs, PTL
<1>4. ListOf(Steps[pc])' = {s \in db' : InList(s)}
  BY <1>2, <1>3
<1>5. ASSUME NEW r \in ListOf(Steps[pc])', ~Touched(r)'
      PROVE  r \in ListOf(Steps[pc]) /\ ~Touched(r) /\ (Ahead(r) => Ahead(r)')
  <2>1. r \in db /\ r \in db' /\ InList(r) /\ ~Touched(r)
    BY <1>4, <1>5 DEF Touched
  <2>2. r \in ListOf(Steps[pc])
    BY <2>1, ListIs
  <2>3. Place(r, ListOf(Steps[pc])) = Cardinality(UpTo(db, r))
    BY <2>2, PlaceIs
  <2>4. Place(r, ListOf(Steps[pc]))' = Cardinality(UpTo(db', r))
    <3>1. {s \in ListOf(Steps[pc])' : s.id <= r.id} = UpTo(db', r)
      BY <1>4 DEF UpTo
    <3> QED
      BY <3>1 DEF Place
  <2>5. Place(r, ListOf(Steps[pc]))' = Place(r, ListOf(Steps[pc]))
    BY <1>5, <2>1, <2>3, <2>4
  <2> QED
    BY <2>1, <2>2, <2>5 DEF Ahead
<1>6. (TypeInv /\ Now("search") => \A r \in db : Wanted(r) => r \in ListOf(Steps[pc]))'
  BY WantedIsListed, PTL
<1>7. NotPassed'
  <2> SUFFICES ASSUME Now("search"), ~shifted, NEW r \in db', Wanted(r)', ~Touched(r)'
               PROVE  Ahead(r)'
    BY <1>1, Zenon DEF NotPassed
  <2>1. r \in ListOf(Steps[pc])'
    BY <1>6, <1>1
  <2>2. r \in db /\ Wanted(r)
    BY <1>1, <1>5, <2>1, ListIs DEF Wanted
  <2> QED
    BY <1>5, <2>1, <2>2 DEF PagesInv, NotPassed
<1>8. TakenOrAhead'
  <2> SUFFICES ASSUME Now("collect"), ~shifted, NEW r \in ListOf(Steps[pc])',
                      Sought(Steps[pc], r)', ~Touched(r)'
               PROVE  (r \in reg[Steps[pc].into])' \/ Ahead(r)'
    BY <1>1, Zenon DEF TakenOrAhead
  <2>1. Sought(Steps[pc], r)
    BY <1>1 DEF Sought
  <2>2. r \in reg[Steps[pc].into] \/ Ahead(r)
    BY <1>5, <2>1 DEF PagesInv, TakenOrAhead
  <2> QED
    BY <1>1, <1>5, <2>2
<1> QED
  BY <1>7, <1>8

LEMMA OtherCreatesKeep ==
    ASSUME TypeInv, TypeInv', PagesInv, OtherCreates
    PROVE  PagesInv'
<1>1. UNCHANGED <<cmd, pc, reg, exit, shifted>> /\ exit = ""
  BY DEF OtherCreates
<1>2. PICK new : /\ IsRow(new) /\ new.id = FreshId
                 /\ db' = db \cup {new} /\ touched' = touched \cup {new}
  BY NewOfOthers
<1>3. OnFirstPage' /\ FoundUnlessShifted'
  BY <1>1 DEF PagesInv, OnFirstPage, FoundUnlessShifted, Now, Steps
<1>4. ASSUME NEW r \in db PROVE UpTo(db', r) = UpTo(db, r)
  <2>1. r.id \in Nat /\ r.id < new.id /\ new.id \in Nat
    BY <1>2, FreshIdIsNew DEF TypeInv, RowInv, Distinct, IsRow
  <2>2. ~(new.id <= r.id)
    BY <2>1
  <2> QED
    BY <1>2, <2>2 DEF UpTo
<1>5. \A r \in db' : r \in db \/ Touched(r)'
  BY <1>2 DEF Touched
<1>6. NotPassed' /\ TakenOrAhead'
  BY <1>1, <1>2, <1>4, <1>5, OthersKeepPlaces
<1> QED
  BY <1>3, <1>6 DEF PagesInv

LEMMA OtherChangesKeep ==
    ASSUME TypeInv, TypeInv', PagesInv, OtherChanges
    PROVE  PagesInv'
<1>1. UNCHANGED <<cmd, pc, reg, exit>> /\ exit = ""
  BY DEF OtherChanges
<1>2. OnFirstPage' /\ FoundUnlessShifted'
  BY <1>1 DEF PagesInv, OnFirstPage, FoundUnlessShifted, Now, Steps
<1>3. PICK r \in db :
          /\ r.kind \in Concerned
          /\ \/ shifted' = (shifted \/ reg.page > 1)
             \/ /\ touched' = touched \cup {r}
                /\ db' = (db \ {r}) \cup {Patched(OthersPatch[r.kind], r)}
                /\ UNCHANGED shifted
  BY DEF OtherChanges
<1>4. CASE shifted' = (shifted \/ reg.page > 1)
  <2>1. CASE shifted'
    BY <1>2, <2>1 DEF PagesInv, NotPassed, TakenOrAhead
  <2>2. CASE ~shifted'
    <3>1. ~(reg.page > 1)
      BY <1>4, <2>2
    <3>2. reg.page = 1
      <4>1. reg.page \in Nat \ {0}
        BY DEF TypeInv, RegInv
      <4> QED
        BY <3>1, <4>1
    <3>3. reg'.page = 1
      BY <1>1, <3>2
    <3> QED
      BY <1>1, <3>3, AtFirstPage
  <2> QED
    BY <2>1, <2>2
<1>5. CASE /\ touched' = touched \cup {r}
           /\ db' = (db \ {r}) \cup {Patched(OthersPatch[r.kind], r)}
           /\ UNCHANGED shifted
  <2>0. \A s \in db : IsRow(s)
    BY DEF TypeInv, RowInv, Distinct
  <2>1. PICK new : new = Patched(OthersPatch[r.kind], r)
    OBVIOUS
  <2>2. IsRow(new) /\ new.id = r.id /\ new.kind = r.kind /\ new.of = r.of
    BY <1>3, <2>0, <2>1, OthersKeep DEF TypeInv
  <2>3. db' = (db \ {r}) \cup {new} /\ touched' = touched \cup {r}
    BY <1>5, <2>1
  <2>4. \A s \in db' : s \in db \/ Touched(s)'
    BY <2>2, <2>3 DEF Touched
  <2>5. ASSUME NEW s \in db, s \in db', ~Touched(s)'
        PROVE  Cardinality(UpTo(db', s)) = Cardinality(UpTo(db, s))
    <3> DEFINE A == UpTo(db, s)
               B == UpTo(db', s)
    <3>1. IsFiniteSet(A)
      BY FiniteRows, FS_Subset DEF TypeInv, RowInv, Bounded, UpTo
    <3>2. Distinct(A) /\ Distinct(B)
      BY FewerRows DEF TypeInv, RowInv, UpTo
    <3>3. InList(new) <=> InList(r)
      BY <2>2 DEF InList
    <3>4. \A a \in A : \E b \in B : b.id = a.id
      BY <2>2, <2>3, <3>3 DEF UpTo
    <3>5. \A b \in B : \E a \in A : a.id = b.id
      BY <2>2, <2>3, <3>3 DEF UpTo
    <3> HIDE DEF A, B
    <3>6. Cardinality(B) = Cardinality(A)
      BY <3>1, <3>2, <3>4, <3>5, SameIdsSameSize
    <3> QED
      BY <3>6 DEF A, B
  <2>6. NotPassed' /\ TakenOrAhead'
    BY <1>1, <1>5, <2>3, <2>4, <2>5, OthersKeepPlaces
  <2> QED
    BY <1>2, <2>6 DEF PagesInv
<1> QED
  BY <1>3, <1>4, <1>5

----------------------------------------------------------------------------

LEMMA PagesInvariance == Spec => []PagesInv
<1>1. Init => PagesInv
  <2> SUFFICES ASSUME Init PROVE PagesInv
    OBVIOUS
  <2>1. reg.page = 1
    BY DEF Init, NothingRead
  <2>2. NotPassed /\ TakenOrAhead
    BY <2>1, InitType, FirstPage
  <2> QED
    BY <2>1, <2>2 DEF Init, PagesInv, OnFirstPage, FoundUnlessShifted
<1>2. TypeInv /\ TypeInv' /\ PagesInv /\ [Next]_vars => PagesInv'
  <2> SUFFICES ASSUME TypeInv, TypeInv', PagesInv, [Next]_vars PROVE PagesInv'
    OBVIOUS
  <2>1. CASE Step
    BY <2>1, OtherStepsFirst, EndingStepsFirst, SearchFinds, CollectKeeps DEF Step
  <2>2. CASE Lost
    <3>1. CASE exit' = "call"
      BY <3>1, CallFailed
    <3>2. CASE Now("try") /\ UNCHANGED <<exit, reg>>
      <4>1. reg'.page = 1 /\ exit' = ""
        BY <3>2, ElsewhereFirst DEF Now, TypeInv, PagesInv
      <4> QED
        BY <4>1, AtFirstPage
    <3> QED
      BY <2>2, <3>1, <3>2 DEF Lost, End
  <2>3. CASE Again
    <3>1. reg'.page = 1 /\ exit' = ""
      BY <2>3 DEF Again, NothingRead
    <3> QED
      BY <3>1, AtFirstPage
  <2>4. CASE UNCHANGED vars
    <3>1. UNCHANGED vars
      BY <2>4
    <3>2. OnFirstPage' /\ FoundUnlessShifted'
      BY <3>1 DEF vars, others, PagesInv, OnFirstPage, FoundUnlessShifted, Now, Steps
    <3>3. NotPassed' /\ TakenOrAhead'
      BY <3>1, OthersKeepPlaces DEF vars, others
    <3> QED
      BY <3>2, <3>3 DEF PagesInv
  <2> QED
    BY <2>1, <2>2, <2>3, <2>4, OtherChangesKeep, OtherCreatesKeep DEF Next
<1> QED
  BY <1>1, <1>2, TypeInvariance, PTL DEF Spec

\* What is looked for through the pages of a list, and is there all the time,
\* is reported missing only if a row went while the pages were read: however
\* many pages there are, and whatever other users change or make meanwhile
\* (GetReleaseByTag).
THEOREM FoundIfThere == Spec => []FoundUnlessShifted
BY PagesInvariance, PTL DEF PagesInv

\* What is collected through the pages of a list has every row that was sought
\* and was there all the time, unless a row went meanwhile (ResolveLabelNames).
THEOREM CollectedIfThere == Spec => CollectedUnlessShifted
<1> DEFINE Collects ==
            Now("collect") /\ pc' # pc =>
              \A r \in ListOf(Steps[pc]) : Sought(Steps[pc], r) =>
                 \/ shifted \/ \E t \in touched : t.id = r.id
                 \/ r \in reg'[Steps[pc].into]
<1>1. TypeInv /\ PagesInv /\ [Next]_vars => [Collects]_vars
  <2> SUFFICES ASSUME TypeInv, PagesInv, Next, Now("collect"), pc' # pc, ~shifted,
                      NEW r \in ListOf(Steps[pc]), Sought(Steps[pc], r), ~Touched(r)
               PROVE  r \in reg'[Steps[pc].into]
    BY Zenon DEF Touched
  <2>1. exit = "" /\ pc \in DOMAIN Steps /\ Steps[pc].op = "collect"
    BY DEF Now
  <2>2. DoCollect
    <3>1. ~Lost /\ ~Again /\ ~OtherChanges /\ ~OtherCreates /\ ~Finish
      BY <2>1 DEF Lost, Again, OtherChanges, OtherCreates, Finish, Now, End
    <3>2. Step
      BY <3>1 DEF Next
    <3> QED
      BY <2>1, <3>1, <3>2 DEF Step, DoGet, DoSearch, DoEdit, DoCreate, DoDelete, DoChange, DoRemove,
           NothingToDo, DoSelect, DoAccept, DoList, DoRequest, DoAsk, DoStop, Missing, UserUnknown, Exists, Refused, Now
  <2>3. IsLastPage(ListOf(Steps[pc]), reg.page)
    BY <2>2 DEF DoCollect
  <2> QED
    BY <2>2, <2>3, Collected
<1> QED
  BY <1>1, TypeInvariance, PagesInvariance, PTL DEF Spec, CollectedUnlessShifted

----------------------------------------------------------------------------
(* A refusal changes nothing: once the command has written, whatever may   *)
(* still be refused is there.                                              *)

Refusals == {"usage", "missing", "exists"}
Running == exit = ""
IsRefused == exit \in Refusals

\* What a call is about is there.
IsThere(p) ==
    \E r \in db : /\ r.kind = p.kind
                  /\ p.by = "id" => r.id = p.id
                  /\ p.by = "name" => r.name = p.name
                  /\ p.by = "found" => r.id = reg.found.id

\* The step will not be refused.
Ready(step) ==
    /\ step.op \in OnRows =>
          /\ step.op = "get" => step.expects = <<>>
          /\ step.pick.by \in {"id", "name", "found"} /\ DOMAIN step.pick.where = {}
          /\ IsThere(step.pick)
    /\ step.op = "create" =>
          step.mode # "unique" /\ ~step.within /\ \E r \in db : r.id = step.row.of
    /\ step.op \notin {"search", "stop", "ask"}

\* (A flag that is a formula, as the provers need it.)
HasChanged == changed

AllReady == \A j \in pc .. Len(Steps) : MayBeRefused(Steps[j]) => Ready(Steps[j])

\* What has changed a row comes before, or is the removal that goes on.
HasWritten ==
    HasChanged /\ Running =>
        \E i \in 1 .. pc : /\ i \in DOMAIN Steps /\ Writes(Steps[i])
                           /\ i = pc => Steps[i].op = "remove"

PatchKnown == DOMAIN reg.patch \subseteq WrittenBack(Steps)

LookedUp ==
    HasChanged /\ touched = {} /\ LooksUpFirst(Steps) =>
        (Running => AllReady) /\ ~IsRefused

LookUpInv == HasWritten /\ PatchKnown /\ LookedUp

LEMMA ReadyIsPicked ==
    ASSUME NEW step, Ready(step), step.op \in OnRows
    PROVE  Picked(step.pick) # {}
BY DEF Ready, IsThere, Picked, Among

\* The steps that may be refused are, unless they are ready.
LEMMA ReadyIsNotRefused ==
    ASSUME TypeInv, Running, pc \in DOMAIN Steps,
           MayBeRefused(Steps[pc]) => Ready(Steps[pc]), cmd' = cmd,
           DoGet \/ DoSearch \/ DoAsk \/ DoStop \/ Missing \/ UserUnknown \/ Exists
    PROVE  ~IsRefused'
<1> DEFINE step == Steps[pc]
<1>1. step.op \in OnRows => MayBeRefused(step) \/ step.pick.by = "all"
  BY DEF MayBeRefused
<1>2. CASE DoGet
  <2>1. step.op = "get"
    BY <1>2 DEF DoGet, Now
  <2>2. step.expects = <<>>
    BY <2>1 DEF MayBeRefused, Ready, OnRows
  <2>3. exit' = exit
    BY <1>2, <2>2 DEF DoGet
  <2> QED
    BY <2>3 DEF Refusals, IsRefused, Running
<1>3. CASE DoSearch
  <2>1. step.op = "search"
    BY <1>3 DEF DoSearch, Now
  <2> QED
    BY <2>1 DEF MayBeRefused, Ready
<1>4. CASE DoAsk
  <2>1. step.op = "ask"
    BY <1>4 DEF DoAsk, Now
  <2>2. ~(step.skip = 0 /\ step.no \in Refusals)
    BY <2>1 DEF MayBeRefused, Ready, Refusals
  <2>3. exit' = "" \/ (step.skip = 0 /\ exit' = step.no)
    BY <1>4 DEF DoAsk, Running, Proceed, End
  <2> QED
    BY <2>2, <2>3 DEF Refusals, IsRefused
<1>5. CASE DoStop
  <2>1. step.op = "stop" /\ exit' = step.exit
    BY <1>5 DEF DoStop, Now, Refused, End
  <2>2. step.exit \in {"usage", "told", "ok"}
    BY <1>5, NowIs DEF TypeInv, DoStop, StepFits
  <2>3. step.exit # "usage"
    BY <2>1 DEF MayBeRefused, Ready
  <2> QED
    BY <2>1, <2>2, <2>3 DEF Refusals, IsRefused
<1>6. ~Missing
  <2> SUFFICES ASSUME Missing PROVE FALSE
    OBVIOUS
  <2>1. CASE step.op \in OnRows /\ step.pick.by # "all" /\ Picked(step.pick) = {}
    BY <2>1, <1>1, ReadyIsPicked
  <2>2. CASE /\ step.op = "create" /\ Owner(step) # 0
             /\ \A r \in db : r.id # Owner(step)
    <3>1. MayBeRefused(step)
      BY <2>2 DEF MayBeRefused, Owner
    <3>2. ~step.within /\ \E r \in db : r.id = step.row.of
      BY <3>1, <2>2 DEF Ready
    <3> QED
      BY <3>2, <2>2 DEF Owner
  <2> QED
    BY <2>1, <2>2 DEF Missing, Now, OnRows
<1>7. ~Exists
  <2> SUFFICES ASSUME Exists PROVE FALSE
    OBVIOUS
  <2>1. step.op = "create" /\ step.mode = "unique"
    BY DEF Exists, Now
  <2> QED
    BY <2>1 DEF MayBeRefused, Ready
<1>8. CASE UserUnknown
  <2>1. exit' = "unknown"
    BY <1>8 DEF UserUnknown, Refused, End
  <2> QED
    BY <2>1 DEF Refusals, IsRefused
<1> QED
  BY <1>2, <1>3, <1>4, <1>5, <1>6, <1>7, <1>8

\* What the calls are about stays there while nothing is written and another
\* row is not found.
LEMMA ReadyKept ==
    ASSUME NEW step, Ready(step), UNCHANGED db,
           step.op \in OnRows /\ step.pick.by = "found" => reg'.found.id = reg.found.id
    PROVE  Ready(step)'
BY DEF Ready, IsThere


LEMMA PlaceIsNumber ==
    ASSUME TypeInv
    PROVE  pc \in Nat /\ Len(Steps) \in Nat /\ DOMAIN Steps = 1 .. Len(Steps)
BY CommandFits DEF TypeInv, StepInv

\* A step that writes nothing and finds no other row.
LEMMA QuietStep ==
    ASSUME TypeInv, LookUpInv, Running, pc \in DOMAIN Steps,
           UNCHANGED <<db, cmd, changed, touched>>,
           PatchKnown', pc' \in Nat, pc <= pc', reg'.found.id = reg.found.id,
           (MayBeRefused(Steps[pc]) => Ready(Steps[pc])) => ~IsRefused'
    PROVE  LookUpInv'
<1>0. HasChanged' = HasChanged
  BY DEF HasChanged
<1>1. Steps' = Steps
  BY DEF Steps
<1>2. pc \in Nat /\ Len(Steps) \in Nat /\ DOMAIN Steps = 1 .. Len(Steps)
  BY PlaceIsNumber
<1>3. HasWritten'
  <2> SUFFICES ASSUME HasChanged /\ Running'
               PROVE  \E i \in 1 .. pc' : /\ i \in DOMAIN Steps /\ Writes(Steps[i])
                                          /\ i = pc' => Steps[i].op = "remove"
    BY <1>1, <1>0 DEF HasWritten, Writes
  <2>1. PICK i \in 1 .. pc : /\ i \in DOMAIN Steps /\ Writes(Steps[i])
                             /\ i = pc => Steps[i].op = "remove"
    BY DEF LookUpInv, HasWritten
  <2> QED
    BY <2>1, <1>2
<1>4. LookedUp'
  <2> SUFFICES ASSUME HasChanged, touched = {}, LooksUpFirst(Steps)
               PROVE  /\ Running' => AllReady'
                      /\ ~IsRefused'
    BY <1>1, <1>0 DEF LookedUp, LooksUpFirst
  <2>1. AllReady
    BY DEF LookUpInv, LookedUp
  <2>2. MayBeRefused(Steps[pc]) => Ready(Steps[pc])
    BY <2>1, <1>2 DEF AllReady
  <2>3. ASSUME NEW j \in pc' .. Len(Steps), MayBeRefused(Steps[j]) PROVE Ready(Steps[j])'
    <3>1. Ready(Steps[j])
      BY <2>1, <2>3, <1>2 DEF AllReady
    <3>2. PICK step : step = Steps[j]
      OBVIOUS
    <3>3. Ready(step)'
      BY <3>1, <3>2, ReadyKept
    <3> QED
      BY <3>2, <3>3, <1>1 DEF Ready, IsThere
  <2>4. AllReady'
    BY <2>3, <1>1 DEF AllReady, MayBeRefused
  <2> QED
    BY <2>2, <2>4
<1> QED
  BY <1>3, <1>4 DEF LookUpInv

\* What is to be written back stays the same.
LEMMA PatchStays ==
    ASSUME LookUpInv, cmd' = cmd, reg'.patch = reg.patch
    PROVE  PatchKnown'
<1>1. WrittenBack(Steps)' = WrittenBack(Steps)
  BY DEF WrittenBack, Steps
<1> QED
  BY <1>1 DEF LookUpInv, PatchKnown

LEMMA ReadingKeeps ==
    ASSUME TypeInv, LookUpInv, DoCollect \/ NothingToDo \/ DoSelect \/ DoList
    PROVE  LookUpInv'
<1>1. /\ Running /\ Running' /\ pc \in DOMAIN Steps
      /\ UNCHANGED <<db, cmd, changed, touched>>
  BY DEF DoCollect, NothingToDo, DoSelect, DoList, Now, Proceed, Running, others
<1>2. pc' \in {pc, pc + 1}
  BY DEF DoCollect, NothingToDo, DoSelect, DoList, Proceed
<1>3. pc' \in Nat /\ pc <= pc'
  BY <1>2, PlaceIsNumber
<1>4. reg'.found = reg.found /\ reg'.patch = reg.patch
  <2>1. DOMAIN reg = RegFields
    BY DEF TypeInv, RegInv
  <2>2. CASE DoCollect
    <3>1. Steps[pc].into \in {"add", "rm", "listed"}
      BY <2>2, NowIs DEF TypeInv, DoCollect, StepFits
    <3>2. \E m, n : reg' = [reg EXCEPT ![Steps[pc].into] = m, !.page = n]
      BY <2>2 DEF DoCollect
    <3> QED
      BY <2>1, <3>1, <3>2 DEF RegFields
  <2>3. CASE NothingToDo
    BY <2>3 DEF NothingToDo
  <2>4. CASE DoSelect
    BY <2>1, <2>4 DEF DoSelect, RegFields
  <2>5. CASE DoList
    BY <2>1, <2>5 DEF DoList, RegFields
  <2> QED
    BY <2>2, <2>3, <2>4, <2>5
<1>5. PatchKnown'
  BY <1>1, <1>4, PatchStays
<1>6. ~IsRefused'
  BY <1>1 DEF Running, IsRefused, Refusals
<1> QED
  BY <1>1, <1>3, <1>4, <1>5, <1>6, QuietStep

LEMMA AcceptKeeps ==
    ASSUME TypeInv, LookUpInv, DoAccept
    PROVE  LookUpInv'
<1>1. /\ Running /\ Running' /\ pc \in DOMAIN Steps
      /\ UNCHANGED <<db, cmd, changed, touched>>
  BY DEF DoAccept, Now, Proceed, Running, others
<1>2. pc' \in Nat /\ pc <= pc'
  <2>1. pc' = pc + 1
    BY DEF DoAccept, Proceed
  <2> QED
    BY <2>1, PlaceIsNumber
<1>3. reg' = reg \/ \E n : reg' = [reg EXCEPT !.patch = Patched(reg.patch, [milestone |-> n])]
  BY DEF DoAccept
<1>4. reg'.found = reg.found /\ DOMAIN reg'.patch \subseteq DOMAIN reg.patch \cup {"milestone"}
  <2>1. DOMAIN reg = RegFields
    BY DEF TypeInv, RegInv
  <2>2. ASSUME NEW n, reg' = [reg EXCEPT !.patch = Patched(reg.patch, [milestone |-> n])]
        PROVE  /\ reg'.found = reg.found
               /\ DOMAIN reg'.patch \subseteq DOMAIN reg.patch \cup {"milestone"}
    <3>1. DOMAIN Patched(reg.patch, [milestone |-> n]) = DOMAIN reg.patch \cup {"milestone"}
      BY DEF Patched
    <3> QED
      BY <2>1, <2>2, <3>1 DEF RegFields
  <2> QED
    BY <1>3, <2>2
<1>5. PatchKnown'
  <2>1. WrittenBack(Steps)' = WrittenBack(Steps) /\ "milestone" \in WrittenBack(Steps)
    BY <1>1 DEF WrittenBack, Steps
  <2> QED
    BY <1>4, <2>1 DEF LookUpInv, PatchKnown
<1>6. ~IsRefused'
  BY <1>1 DEF Running, IsRefused, Refusals
<1> QED
  BY <1>1, <1>2, <1>4, <1>5, <1>6, QuietStep

LEMMA EndingKeeps ==
    ASSUME TypeInv, LookUpInv, DoAsk \/ DoStop \/ Missing \/ UserUnknown \/ Exists
    PROVE  LookUpInv'
<1>1. /\ Running /\ pc \in DOMAIN Steps
      /\ UNCHANGED <<db, cmd, changed, touched, reg>>
  BY DEF DoAsk, DoStop, Missing, UserUnknown, Exists, Refused, Now, Running, others
<1>2. pc' \in Nat /\ pc <= pc'
  <2>1. CASE DoAsk
    <3>1. Steps[pc].skip \in 0 .. Len(Steps) - pc
      BY <2>1, NowIs DEF TypeInv, DoAsk, StepFits
    <3>2. pc' \in {pc, pc + 1, pc + 1 + Steps[pc].skip}
      BY <2>1 DEF DoAsk, Proceed, End
    <3> QED
      BY <3>1, <3>2, PlaceIsNumber
  <2>2. CASE DoStop \/ Missing \/ UserUnknown \/ Exists
    BY <2>2, PlaceIsNumber DEF DoStop, Missing, UserUnknown, Exists, Refused, End
  <2> QED
    BY <2>1, <2>2
<1>3. PatchKnown'
  BY <1>1, PatchStays
<1> QED
  BY <1>1, <1>2, <1>3, QuietStep, ReadyIsNotRefused

\* A call is lost: the command ends, or it goes on without what it tried.
LEMMA LostKeeps ==
    ASSUME TypeInv, LookUpInv, Lost
    PROVE  LookUpInv'
<1>1. /\ Running /\ pc \in DOMAIN Steps
      /\ UNCHANGED <<db, cmd, changed, touched, reg>>
  BY DEF Lost, Now, Running, others
<1>2. pc' \in Nat /\ pc <= pc'
  BY PlaceIsNumber DEF Lost, End
<1>3. ~IsRefused'
  <2>1. exit' = "call" \/ exit' = exit
    BY DEF Lost, End
  <2> QED
    BY <1>1, <2>1 DEF Running, IsRefused, Refusals
<1>4. PatchKnown'
  BY <1>1, PatchStays
<1> QED
  BY <1>1, <1>2, <1>3, <1>4, QuietStep

LEMMA FinishKeeps ==
    ASSUME TypeInv, LookUpInv, Finish
    PROVE  LookUpInv'
<1>1. ~Running' /\ ~IsRefused'
  BY DEF Finish, End, Running, IsRefused, Refusals
<1>2. cmd' = cmd /\ reg' = reg
  BY DEF Finish
<1>3. PatchKnown'
  BY <1>2, PatchStays
<1> QED
  BY <1>1, <1>3 DEF LookUpInv, HasWritten, LookedUp

\* Once a row is changed nothing is looked for any more.
LEMMA SearchKeeps ==
    ASSUME TypeInv, LookUpInv, DoSearch
    PROVE  LookUpInv'
<1>1. /\ Running /\ pc \in DOMAIN Steps /\ Steps[pc].op = "search"
      /\ UNCHANGED <<db, cmd, changed, touched>>
  BY DEF DoSearch, Now, Running, others
<1>2. Steps' = Steps /\ HasChanged' = HasChanged
  BY <1>1 DEF Steps, HasChanged
<1>3. pc \in Nat /\ Len(Steps) \in Nat /\ DOMAIN Steps = 1 .. Len(Steps)
  BY PlaceIsNumber
<1>4. ~(HasChanged /\ touched = {} /\ LooksUpFirst(Steps))
  <2> SUFFICES ASSUME HasChanged, touched = {}, LooksUpFirst(Steps) PROVE FALSE
    OBVIOUS
  <2>1. MayBeRefused(Steps[pc]) => Ready(Steps[pc])
    BY <1>1, <1>3 DEF LookUpInv, LookedUp, AllReady
  <2> QED
    BY <1>1, <2>1 DEF MayBeRefused, Ready
<1>5. LookedUp'
  BY <1>1, <1>2, <1>4 DEF LookedUp, LooksUpFirst
<1>6. HasWritten'
  <2> SUFFICES ASSUME HasChanged
               PROVE  \E i \in 1 .. pc' : /\ i \in DOMAIN Steps /\ Writes(Steps[i])
                                          /\ i = pc' => Steps[i].op = "remove"
    BY <1>2 DEF HasWritten, Writes
  <2>1. PICK i \in 1 .. pc : /\ i \in DOMAIN Steps /\ Writes(Steps[i])
                             /\ i = pc => Steps[i].op = "remove"
    BY <1>1 DEF LookUpInv, HasWritten
  <2>2. pc' \in {pc, pc + 1}
    BY DEF DoSearch, End
  <2> QED
    BY <2>1, <2>2, <1>3
<1>7. reg'.patch = reg.patch
  <2>1. DOMAIN reg = RegFields
    BY DEF TypeInv, RegInv
  <2>2. \/ \E r : reg' = [reg EXCEPT !.found = r, !.page = 1]
        \/ reg' = [reg EXCEPT !.page = @ + 1]
        \/ reg' = reg
    BY DEF DoSearch
  <2> QED
    BY <2>1, <2>2 DEF RegFields
<1>8. PatchKnown'
  BY <1>1, <1>7, PatchStays
<1> QED
  BY <1>5, <1>6, <1>8 DEF LookUpInv

\* What a later call is about is not what this one finds.
LEMMA GetKeeps ==
    ASSUME TypeInv, LookUpInv, DoGet
    PROVE  LookUpInv'
<1>1. /\ Running /\ pc \in DOMAIN Steps /\ Steps[pc].op = "get"
      /\ UNCHANGED <<db, cmd, changed, touched>>
  BY DEF DoGet, Now, Running, others
<1>2. Steps' = Steps /\ HasChanged' = HasChanged
  BY <1>1 DEF Steps, HasChanged
<1>3. pc \in Nat /\ Len(Steps) \in Nat /\ DOMAIN Steps = 1 .. Len(Steps)
  BY PlaceIsNumber
<1>4. pc' = pc + 1 \/ (pc' = pc /\ exit' = "usage")
  BY DEF DoGet, End
<1>5. Running' => pc' = pc + 1
  BY <1>4 DEF Running
<1>6. HasWritten'
  <2> SUFFICES ASSUME HasChanged, Running'
               PROVE  \E i \in 1 .. pc' : /\ i \in DOMAIN Steps /\ Writes(Steps[i])
                                          /\ i = pc' => Steps[i].op = "remove"
    BY <1>2 DEF HasWritten, Writes
  <2>1. PICK i \in 1 .. pc : /\ i \in DOMAIN Steps /\ Writes(Steps[i])
                             /\ i = pc => Steps[i].op = "remove"
    BY <1>1 DEF LookUpInv, HasWritten
  <2> QED
    BY <2>1, <1>5, <1>3
<1>7. PatchKnown'
  <2>1. WrittenBack(Steps)' = WrittenBack(Steps)
    BY <1>2 DEF WrittenBack
  <2>2. PICK r : reg' = [reg EXCEPT !.found = r, !.patch = Remembered(Steps[pc], r)]
    BY DEF DoGet
  <2>3. reg'.patch = Remembered(Steps[pc], r)
    BY <2>2 DEF TypeInv, RegInv, RegFields
  <2>4. DOMAIN Remembered(Steps[pc], r)
            \subseteq DOMAIN reg.patch \cup Steps[pc].keep \cup {Steps[pc].link}
    BY DEF Remembered, Patched, NoFields
  <2>5. Steps[pc].keep \cup {Steps[pc].link} \subseteq WrittenBack(Steps)
    BY <1>1 DEF WrittenBack
  <2> QED
    BY <2>1, <2>3, <2>4, <2>5 DEF LookUpInv, PatchKnown
<1>8. LookedUp'
  <2> SUFFICES ASSUME HasChanged, touched = {}, LooksUpFirst(Steps)
               PROVE  /\ Running' => AllReady'
                      /\ ~IsRefused'
    BY <1>1, <1>2 DEF LookedUp, LooksUpFirst
  <2>1. AllReady
    BY <1>1 DEF LookUpInv, LookedUp
  <2>2. MayBeRefused(Steps[pc]) => Ready(Steps[pc])
    BY <2>1, <1>1, <1>3 DEF AllReady
  <2>3. ~IsRefused'
    BY <1>1, <2>2, ReadyIsNotRefused
  <2>4. ASSUME NEW j \in pc + 1 .. Len(Steps), MayBeRefused(Steps[j]) PROVE Ready(Steps[j])'
    <3>1. Ready(Steps[j])
      BY <2>1, <2>4, <1>3 DEF AllReady
    <3>2. PICK step : step = Steps[j]
      OBVIOUS
    <3>3. PICK i \in 1 .. pc : /\ i \in DOMAIN Steps /\ Writes(Steps[i])
                               /\ i = pc => Steps[i].op = "remove"
      BY <1>1 DEF LookUpInv, HasWritten
    <3>4. i < pc /\ i < j /\ pc \in i + 1 .. j - 1 /\ j \in DOMAIN Steps
      <4>1. i # pc
        BY <3>3, <1>1
      <4> QED
        BY <4>1, <3>3, <1>3
    <3>5. SameRow(Steps, Steps[i], Steps[j]) \/ RowMade(Steps, i, j) \/ SameOwner(Steps[i], Steps[j])
      BY <2>4, <3>3, <3>4 DEF LooksUpFirst
    <3>6. ~(step.op \in OnRows /\ step.pick.by = "found")
      BY <3>2, <3>4, <3>5, <1>1 DEF SameRow, RowMade, SameOwner, OnRows
    <3>7. Ready(step)'
      BY <3>1, <3>2, <3>6, <1>1, ReadyKept
    <3> QED
      BY <3>2, <3>7, <1>2 DEF Ready, IsThere
  <2>5. Running' => AllReady'
    BY <2>4, <1>2, <1>5 DEF AllReady, MayBeRefused
  <2> QED
    BY <2>3, <2>5
<1> QED
  BY <1>6, <1>7, <1>8 DEF LookUpInv

----
(* A change leaves there what the calls after it are about. *)

LEMMA ChangeKeepsLookUp ==
    ASSUME TypeInv, LookUpInv, pc \in DOMAIN Steps, Writes(Steps[pc]),
           cmd' = cmd, ~IsRefused', PatchKnown',
           \/ pc' = pc + 1
           \/ pc' = pc /\ (Running' => Steps[pc].op = "remove"),
           \A j \in DOMAIN Steps :
              /\ SameRow(Steps, Steps[pc], Steps[j]) => IsThere(Steps[j].pick)'
              /\ RowMade(Steps, pc, j) => IsThere(Steps[j].pick)'
              /\ SameOwner(Steps[pc], Steps[j]) /\ MayBeRefused(Steps[j]) =>
                    \E r \in db' : r.id = Steps[j].row.of
    PROVE  LookUpInv'
<1>1. Steps' = Steps
  BY DEF Steps
<1>2. pc \in Nat /\ Len(Steps) \in Nat /\ DOMAIN Steps = 1 .. Len(Steps)
  BY PlaceIsNumber
<1>3. HasWritten'
  <2> SUFFICES ASSUME Running'
               PROVE  \E i \in 1 .. pc' : /\ i \in DOMAIN Steps /\ Writes(Steps[i])
                                          /\ i = pc' => Steps[i].op = "remove"
    BY <1>1 DEF HasWritten, Writes
  <2> QED
    BY <1>2
<1>4. LookedUp'
  <2> SUFFICES ASSUME Running', LooksUpFirst(Steps) PROVE AllReady'
    BY <1>1 DEF LookedUp, LooksUpFirst
  <2>1. ASSUME NEW j \in pc' .. Len(Steps), MayBeRefused(Steps[j]) PROVE Ready(Steps[j])'
    <3>1. j \in DOMAIN Steps /\ (pc < j \/ (pc = j /\ Steps[pc].op = "remove"))
      BY <1>2
    <3>2. SameRow(Steps, Steps[pc], Steps[j]) \/ RowMade(Steps, pc, j) \/ SameOwner(Steps[pc], Steps[j])
      BY <2>1, <3>1 DEF LooksUpFirst
    <3>3. CASE SameRow(Steps, Steps[pc], Steps[j]) \/ RowMade(Steps, pc, j)
      <4>1. IsThere(Steps[j].pick)'
        BY <3>1, <3>3
      <4>2. /\ Steps[j].op \in OnRows /\ (Steps[j].op = "get" => Steps[j].expects = <<>>)
            /\ Steps[j].pick.by \in {"id", "name", "found"} /\ DOMAIN Steps[j].pick.where = {}
        BY <3>3 DEF SameRow, RowMade
      <4>3. Steps[j].op \notin {"create", "search", "stop", "ask"}
        BY <4>2 DEF OnRows
      <4> QED
        BY <4>1, <4>2, <4>3, <1>1 DEF Ready
    <3>4. CASE SameOwner(Steps[pc], Steps[j])
      <4>1. \E r \in db' : r.id = Steps[j].row.of
        BY <2>1, <3>1, <3>4
      <4>2. Steps[j].op = "create" /\ ~Steps[j].within /\ Steps[j].mode # "unique"
        BY <3>4 DEF SameOwner
      <4> QED
        BY <4>1, <4>2, <1>1 DEF Ready, OnRows
    <3> QED
      BY <3>2, <3>3, <3>4
  <2> QED
    BY <2>1, <1>1 DEF AllReady, MayBeRefused
<1> QED
  BY <1>3, <1>4 DEF LookUpInv

LEMMA AnsweredIs ==
    ASSUME TypeInv, Proceed \/ Answered
    PROVE  /\ ~IsRefused'
           /\ pc' = pc + 1 \/ (pc' = pc /\ ~Running')
<1>1. (pc' = pc + 1 /\ exit' = "") \/ (pc' = pc /\ exit' = "call")
  BY DEF Proceed, Answered, End
<1> QED
  BY <1>1 DEF IsRefused, Refusals, Running

LEMMA PatchGone ==
    ASSUME cmd' = cmd, reg'.patch = NoFields
    PROVE  PatchKnown'
BY DEF PatchKnown, NoFields

\* A field that is not set is as it was.
LEMMA PatchedLeaves ==
    ASSUME NEW fields, NEW row, NEW f \in DOMAIN row, f \notin DOMAIN fields
    PROVE  f \in DOMAIN Patched(fields, row) /\ Patched(fields, row)[f] = row[f]
BY DEF Patched

LEMMA EditKeeps ==
    ASSUME TypeInv, LookUpInv, DoEdit
    PROVE  LookUpInv'
<1> DEFINE step == Steps[pc]
           new(r) == Patched(step.patch, Patched(reg.patch, r))
<1>1. /\ pc \in DOMAIN Steps /\ step.op = "edit" /\ "id" \notin DOMAIN step.patch
  BY NowIs DEF DoEdit, TypeInv, StepFits
<1>2. cmd' = cmd
  BY DEF DoEdit
<1>3. ~IsRefused' /\ (pc' = pc + 1 \/ (pc' = pc /\ ~Running'))
  BY AnsweredIs DEF DoEdit
<1>4. PatchKnown'
  <2>1. reg'.patch = NoFields
    BY DEF DoEdit, TypeInv, RegInv, RegFields
  <2> QED
    BY <2>1, <1>2, PatchGone
<1>5. /\ Picked(step.pick) # {} \/ step.pick.by = "all"
      /\ \A r \in Picked(step.pick) : new(r) \in db'
  BY DEF DoEdit, Write
<1>6. DOMAIN reg.patch \subseteq WrittenBack(Steps) /\ "id" \notin DOMAIN reg.patch
  BY DEF LookUpInv, PatchKnown, TypeInv, RegInv
<1>7. ASSUME NEW j \in DOMAIN Steps, SameRow(Steps, step, Steps[j])
      PROVE  IsThere(Steps[j].pick)'
  <2>1. /\ step.pick = Steps[j].pick /\ Steps[j].pick.by \in {"id", "name"}
        /\ "kind" \notin DOMAIN step.patch \cup WrittenBack(Steps)
        /\ step.pick.by = "name" => "name" \notin DOMAIN step.patch \cup WrittenBack(Steps)
    BY <1>1, <1>7 DEF SameRow, FieldsSet
  <2>2. PICK p : p = Steps[j].pick
    OBVIOUS
  <2>3. PICK r \in Picked(p) : TRUE
    BY <1>5, <2>1, <2>2
  <2>4. IsRow(r) /\ r.kind = p.kind /\ (p.by = "id" => r.id = p.id) /\ (p.by = "name" => r.name = p.name)
    BY PickedHaveIds DEF TypeInv, Picked
  <2>5. {"kind", "id", "name"} \subseteq DOMAIN r
    BY <2>4 DEF IsRow, RowKeys
  <2>6. new(r).kind = r.kind /\ new(r).id = r.id /\ (p.by = "name" => new(r).name = r.name)
    BY <1>1, <1>6, <2>1, <2>2, <2>5, PatchedLeaves
  <2>7. new(r) \in db'
    BY <1>5, <2>1, <2>2, <2>3
  <2>8. IsThere(p)'
    <3> HIDE DEF new
    <3> QED
      BY <2>1, <2>2, <2>4, <2>6, <2>7 DEF IsThere
  <2> QED
    BY <2>2, <2>8, <1>2 DEF IsThere, Steps
<1>8. \A j \in DOMAIN Steps : ~RowMade(Steps, pc, j) /\ ~SameOwner(step, Steps[j])
  BY <1>1 DEF RowMade, SameOwner
<1>9. Writes(step)
  BY <1>1 DEF Writes
<1> HIDE DEF new
<1> QED
  BY <1>1, <1>2, <1>3, <1>4, <1>7, <1>8, <1>9, ChangeKeepsLookUp

\* A field of a row is set, and the row is still picked.
LEMMA FieldSetKeeps ==
    ASSUME TypeInv, LookUpInv, pc \in DOMAIN Steps, Steps[pc].op \in {"change", "add", "remove"},
           Steps[pc].field # "id", cmd' = cmd, reg'.patch = reg.patch, ~IsRefused',
           \/ pc' = pc + 1
           \/ pc' = pc /\ (Running' => Steps[pc].op = "remove"),
           NEW r \in Picked(Steps[pc].pick), NEW v, [r EXCEPT ![Steps[pc].field] = v] \in db'
    PROVE  LookUpInv'
<1> DEFINE step == Steps[pc]
<1>1. PatchKnown'
  BY PatchStays
<1>2. PICK new : new = [r EXCEPT ![step.field] = v]
  OBVIOUS
<1>3. ASSUME NEW j \in DOMAIN Steps, SameRow(Steps, step, Steps[j])
      PROVE  IsThere(Steps[j].pick)'
  <2>1. /\ step.pick = Steps[j].pick /\ Steps[j].pick.by \in {"id", "name"}
        /\ step.field # "kind" /\ (step.pick.by = "name" => step.field # "name")
    BY <1>3 DEF SameRow, FieldsSet
  <2>2. PICK p : p = step.pick
    OBVIOUS
  <2>3. IsRow(r) /\ r.kind = p.kind /\ (p.by = "id" => r.id = p.id) /\ (p.by = "name" => r.name = p.name)
    BY <2>2, PickedHaveIds DEF TypeInv, Picked
  <2>4. {"kind", "id", "name"} \subseteq DOMAIN r
    BY <2>3 DEF IsRow, RowKeys
  <2>5. new.kind = r.kind /\ new.id = r.id /\ (p.by = "name" => new.name = r.name)
    BY <1>2, <2>1, <2>2, <2>4
  <2>6. IsThere(p)'
    BY <1>2, <2>1, <2>2, <2>3, <2>5 DEF IsThere
  <2> QED
    BY <2>1, <2>2, <2>6 DEF IsThere, Steps
<1>4. \A j \in DOMAIN Steps : ~RowMade(Steps, pc, j) /\ ~SameOwner(step, Steps[j])
  BY DEF RowMade, SameOwner
<1>5. Writes(step)
  BY DEF Writes
<1> QED
  BY <1>1, <1>3, <1>4, <1>5, ChangeKeepsLookUp

LEMMA ChangeKeeps ==
    ASSUME TypeInv, LookUpInv, DoChange
    PROVE  LookUpInv'
<1>1. /\ pc \in DOMAIN Steps /\ Steps[pc].op \in {"change", "add"} /\ Steps[pc].field # "id"
  BY NowIs DEF DoChange, TypeInv, StepFits
<1>2. cmd' = cmd /\ reg'.patch = reg.patch
  BY DEF DoChange
<1>3. ~IsRefused' /\ (pc' = pc + 1 \/ (pc' = pc /\ ~Running'))
  BY AnsweredIs DEF DoChange
<1>4. PICK r \in Picked(Steps[pc].pick) :
         \E v : [r EXCEPT ![Steps[pc].field] = v] \in db'
  BY DEF DoChange, Write
<1> QED
  BY <1>1, <1>2, <1>3, <1>4, FieldSetKeeps

LEMMA RemoveKeeps ==
    ASSUME TypeInv, LookUpInv, DoRemove
    PROVE  LookUpInv'
<1>1. /\ pc \in DOMAIN Steps /\ Steps[pc].op = "remove" /\ Steps[pc].field # "id" /\ Running
  BY NowIs DEF DoRemove, TypeInv, StepFits, Now, Running
<1>2. cmd' = cmd
  BY DEF DoRemove
<1>3. reg'.patch = reg.patch
  <2>1. reg' = reg \/ \E m : reg' = [reg EXCEPT !.rm = m]
    BY DEF DoRemove
  <2> QED
    BY <2>1 DEF TypeInv, RegInv, RegFields
<1>4. pc' = pc /\ (exit' = exit \/ exit' = "call")
  BY DEF DoRemove, End
<1>5. ~IsRefused'
  BY <1>1, <1>4 DEF IsRefused, Refusals, Running
<1>6. PICK r \in Picked(Steps[pc].pick) :
         \E v : [r EXCEPT ![Steps[pc].field] = v] \in db'
  BY DEF DoRemove, Write
<1> QED
  BY <1>1, <1>2, <1>3, <1>4, <1>5, <1>6, FieldSetKeeps

\* After what goes, no call of a command that looks up first may be refused.
LEMMA DeleteKeeps ==
    ASSUME TypeInv, LookUpInv, DoDelete
    PROVE  LookUpInv'
<1>1. pc \in DOMAIN Steps /\ Steps[pc].op = "delete"
  BY NowIs DEF DoDelete, TypeInv
<1>2. cmd' = cmd /\ reg'.patch = reg.patch
  BY DEF DoDelete
<1>3. ~IsRefused' /\ (pc' = pc + 1 \/ (pc' = pc /\ ~Running'))
  BY AnsweredIs DEF DoDelete
<1>4. \A j \in DOMAIN Steps : /\ ~SameRow(Steps, Steps[pc], Steps[j])
                              /\ ~RowMade(Steps, pc, j) /\ ~SameOwner(Steps[pc], Steps[j])
  BY <1>1 DEF SameRow, RowMade, SameOwner
<1>5. Writes(Steps[pc])
  BY <1>1 DEF Writes
<1>6. PatchKnown'
  BY <1>2, PatchStays
<1> QED
  BY <1>1, <1>2, <1>3, <1>4, <1>5, <1>6, ChangeKeepsLookUp

LEMMA RequestKeeps ==
    ASSUME TypeInv, LookUpInv, DoRequest
    PROVE  LookUpInv'
<1>1. pc \in DOMAIN Steps /\ Steps[pc].op = "request" /\ Running
  BY NowIs DEF DoRequest, TypeInv, Now, Running
<1>2. cmd' = cmd /\ reg' = reg /\ touched' = touched
  BY DEF DoRequest, others
<1>3. ~IsRefused' /\ (pc' = pc + 1 \/ (pc' = pc /\ ~Running'))
  BY AnsweredIs DEF DoRequest
<1>4. PatchKnown'
  BY <1>2, PatchStays
<1>5. CASE Writes(Steps[pc])
  <2>1. \A j \in DOMAIN Steps : /\ ~SameRow(Steps, Steps[pc], Steps[j])
                                /\ ~RowMade(Steps, pc, j) /\ ~SameOwner(Steps[pc], Steps[j])
    BY <1>1 DEF SameRow, RowMade, SameOwner
  <2> QED
    BY <1>1, <1>2, <1>3, <1>4, <1>5, <2>1, ChangeKeepsLookUp
<1>6. CASE ~Writes(Steps[pc])
  <2>1. Steps[pc].method \notin {"DELETE", "PATCH", "POST"}
    BY <1>1, <1>6 DEF Writes
  <2>2. Requested(Steps[pc]) = db
    BY <2>1 DEF Requested
  <2>3. UNCHANGED <<db, changed>>
    BY <2>2 DEF DoRequest, Write, TypeInv, FlagInv
  <2>4. pc' \in Nat /\ pc <= pc'
    BY <1>3, PlaceIsNumber
  <2> QED
    BY <1>1, <1>2, <1>3, <1>4, <2>3, <2>4, QuietStep
<1> QED
  BY <1>5, <1>6

LEMMA CreateKeeps ==
    ASSUME TypeInv, LookUpInv, DoCreate
    PROVE  LookUpInv'
<1> DEFINE step == Steps[pc]
           same == Picked(step.pick)
           labelled == IF "labels" \in DOMAIN step.row
                       THEN [step.row EXCEPT !.labels = {l.id : l \in reg.add}] ELSE step.row
           one == [Patched(reg.patch, labelled) EXCEPT !.id = FreshId, !.of = Owner(step)]
<1>1. pc \in DOMAIN Steps /\ step.op = "create" /\ RowKeys \subseteq DOMAIN step.row
  BY NowIs DEF DoCreate, TypeInv, StepFits, RowKeys
<1>2. cmd' = cmd
  BY DEF DoCreate
<1>3. ~IsRefused' /\ (pc' = pc + 1 \/ (pc' = pc /\ ~Running'))
  BY AnsweredIs DEF DoCreate
<1>4. /\ "kind" \notin DOMAIN reg.patch => one.kind = step.row.kind
      /\ "name" \notin DOMAIN reg.patch => one.name = step.row.name
      /\ RowKeys \subseteq DOMAIN one
  <2>1. PICK l : l = labelled
    OBVIOUS
  <2>2. RowKeys \subseteq DOMAIN l /\ l.kind = step.row.kind /\ l.name = step.row.name
    BY <1>1, <2>1 DEF RowKeys
  <2>3. PICK q : q = Patched(reg.patch, l)
    OBVIOUS
  <2>4. /\ RowKeys \subseteq DOMAIN q
        /\ "kind" \notin DOMAIN reg.patch => q.kind = l.kind
        /\ "name" \notin DOMAIN reg.patch => q.name = l.name
    BY <2>2, <2>3 DEF Patched, RowKeys
  <2>5. PICK m : m = one
    OBVIOUS
  <2>6. m = [q EXCEPT !.id = FreshId, !.of = Owner(step)]
    BY <2>1, <2>3, <2>5
  <2>7. m.kind = q.kind /\ m.name = q.name /\ RowKeys \subseteq DOMAIN m
    BY <2>4, <2>6 DEF RowKeys
  <2> HIDE DEF one
  <2> QED
    BY <2>2, <2>4, <2>5, <2>7
<1>5. \/ /\ step.mode = "set" /\ same # {}
         /\ db' = (db \ same) \cup {[Patched(one, r) EXCEPT !.id = r.id, !.of = r.of] : r \in same}
         /\ reg' = [reg EXCEPT !.patch = NoFields]
      \/ /\ db' = db \cup {one}
         /\ reg' = [reg EXCEPT !.patch = NoFields,
                               !.found = IF step.within THEN @ ELSE one]
  BY DEF DoCreate, Write
<1>6. Owner(step) = 0 \/ \E r \in db : r.id = Owner(step)
  BY DEF DoCreate
<1> HIDE DEF labelled, one
<1>7. PICK made :
         /\ made = one
         /\ \/ /\ step.mode = "set" /\ same # {}
               /\ db' = (db \ same) \cup {[Patched(made, r) EXCEPT !.id = r.id, !.of = r.of] : r \in same}
               /\ reg' = [reg EXCEPT !.patch = NoFields]
            \/ /\ db' = db \cup {made}
               /\ reg' = [reg EXCEPT !.patch = NoFields,
                                     !.found = IF step.within THEN @ ELSE made]
  BY <1>5
<1>8. PatchKnown'
  <2>1. reg'.patch = NoFields
    BY <1>5 DEF TypeInv, RegInv, RegFields
  <2> QED
    BY <2>1, <1>2, PatchGone
<1>9. DOMAIN reg.patch \subseteq WrittenBack(Steps)
  BY DEF LookUpInv, PatchKnown
<1>10. ASSUME NEW j \in DOMAIN Steps, SameRow(Steps, step, Steps[j])
       PROVE  IsThere(Steps[j].pick)'
  <2>1. /\ Steps[j].pick = step.pick /\ step.pick.by = "name"
        /\ step.pick.kind = step.row.kind /\ step.pick.name = step.row.name
        /\ {"kind", "name"} \cap WrittenBack(Steps) = {}
    BY <1>1, <1>10 DEF SameRow, FieldsSet
  <2>2. PICK p : p = step.pick
    OBVIOUS
  <2>3. made.kind = p.kind /\ made.name = p.name
    BY <1>4, <1>7, <1>9, <2>1, <2>2
  <2>4. \E r \in db' : r.kind = p.kind /\ r.name = p.name
    <3>1. CASE db' = db \cup {made}
      BY <3>1, <2>3
    <3>2. CASE same # {} /\ db' = (db \ same) \cup {[Patched(made, r) EXCEPT !.id = r.id, !.of = r.of] : r \in same}
      <4>1. PICK r \in same : TRUE
        BY <3>2
      <4>2. PICK q : q = Patched(made, r)
        OBVIOUS
      <4>3. PICK new : new = [q EXCEPT !.id = r.id, !.of = r.of]
        OBVIOUS
      <4>4. new \in db'
        BY <3>2, <4>1, <4>2, <4>3
      <4>5. {"kind", "name"} \subseteq DOMAIN made
        BY <1>4, <1>7 DEF RowKeys
      <4>6. q.kind = made.kind /\ q.name = made.name /\ {"kind", "name"} \subseteq DOMAIN q
        BY <4>2, <4>5 DEF Patched
      <4>7. new.kind = made.kind /\ new.name = made.name
        BY <4>3, <4>6
      <4> QED
        BY <2>3, <4>4, <4>7
    <3> HIDE DEF same
    <3> QED
      BY <1>5, <1>7, <3>1, <3>2
  <2>5. IsThere(p)'
    BY <2>1, <2>2, <2>4 DEF IsThere
  <2> QED
    BY <1>2, <2>1, <2>2, <2>5 DEF IsThere, Steps
<1>11. ASSUME NEW j \in DOMAIN Steps, RowMade(Steps, pc, j)
       PROVE  IsThere(Steps[j].pick)'
  <2>1. /\ Steps[j].pick.by = "found" /\ step.row.kind = Steps[j].pick.kind
        /\ ~step.within /\ step.mode # "set" /\ "kind" \notin WrittenBack(Steps)
    BY <1>11 DEF RowMade
  <2>2. PICK p : p = Steps[j].pick
    OBVIOUS
  <2>3. made.kind = p.kind
    BY <1>4, <1>7, <1>9, <2>1, <2>2
  <2>4. made \in db' /\ reg'.found = made
    BY <1>5, <1>7, <2>1 DEF TypeInv, RegInv, RegFields
  <2>5. IsThere(p)'
    BY <2>1, <2>2, <2>3, <2>4 DEF IsThere
  <2> QED
    BY <1>2, <2>2, <2>5 DEF IsThere, Steps
<1>12. ASSUME NEW j \in DOMAIN Steps, SameOwner(step, Steps[j]), MayBeRefused(Steps[j])
       PROVE  \E r \in db' : r.id = Steps[j].row.of
  <2>1. /\ ~step.within /\ step.row.of = Steps[j].row.of /\ Steps[j].row.of # 0
    BY <1>12 DEF SameOwner, MayBeRefused, OnRows
  <2>2. PICK r \in db : r.id = Steps[j].row.of
    BY <1>6, <2>1 DEF Owner
  <2>3. CASE db' = db \cup {made}
    BY <2>2, <2>3
  <2>4. CASE db' = (db \ same) \cup {[Patched(made, q) EXCEPT !.id = q.id, !.of = q.of] : q \in same}
    <3>1. CASE r \notin same
      BY <2>2, <2>4, <3>1
    <3>2. CASE r \in same
      <4>1. PICK q : q = Patched(made, r)
        OBVIOUS
      <4>2. PICK new : new = [q EXCEPT !.id = r.id, !.of = r.of]
        OBVIOUS
      <4>3. new \in db'
        BY <2>4, <3>2, <4>1, <4>2
      <4>4. "id" \in DOMAIN q
        BY <1>4, <1>7, <4>1 DEF Patched, RowKeys
      <4>5. new.id = r.id
        BY <4>2, <4>4
      <4> QED
        BY <2>2, <4>3, <4>5
    <3> QED
      BY <3>1, <3>2
  <2> HIDE DEF same
  <2> QED
    BY <1>5, <1>7, <2>3, <2>4
<1>13. Writes(step)
  BY <1>1 DEF Writes
<1> QED
  BY <1>1, <1>2, <1>3, <1>8, <1>10, <1>11, <1>12, <1>13, ChangeKeepsLookUp

----
LEMMA AgainKeeps ==
    ASSUME TypeInv, Again
    PROVE  LookUpInv'
<1>1. ~HasChanged'
  BY DEF Again, HasChanged
<1>2. ~IsRefused'
  BY DEF Again, IsRefused, Refusals
<1>3. PatchKnown'
  <2>1. cmd' = cmd /\ reg' = NothingRead
    BY DEF Again
  <2> QED
    BY <2>1, NothingReadType, PatchGone
<1> QED
  BY <1>1, <1>2, <1>3 DEF LookUpInv, HasWritten, LookedUp

\* The theorem is about commands that nobody disturbs.
LEMMA OthersDisturb ==
    ASSUME TypeInv, LookUpInv, OtherChanges \/ OtherCreates
    PROVE  LookUpInv'
<1>1. UNCHANGED <<cmd, pc, reg, exit, changed>>
  BY DEF OtherChanges, OtherCreates
<1>2. touched' # {}
  <2>1. CASE OtherChanges
    <3>1. PICK r \in db : \/ /\ db' = {s \in db : s # r /\ s.of # r.id}
                             /\ touched' = touched \cup (db \ db')
                          \/ touched' = touched \cup {r}
      BY <2>1 DEF OtherChanges
    <3> QED
      BY <3>1
  <2>2. CASE OtherCreates
    BY <2>2 DEF OtherCreates
  <2> QED
    BY <2>1, <2>2
<1>3. HasChanged' = HasChanged /\ Running' = Running /\ Steps' = Steps
  BY <1>1 DEF HasChanged, Running, Steps
<1>4. HasWritten'
  BY <1>1, <1>3 DEF LookUpInv, HasWritten, Writes
<1>5. PatchKnown'
  BY <1>1, PatchStays
<1> QED
  BY <1>2, <1>4, <1>5 DEF LookUpInv, LookedUp

LEMMA LookUpInvariance == Spec => []LookUpInv
<1>1. Init => LookUpInv
  <2> SUFFICES ASSUME Init PROVE LookUpInv
    OBVIOUS
  <2>1. ~HasChanged
    BY DEF Init, HasChanged
  <2>2. DOMAIN reg.patch = {}
    BY NothingReadType DEF Init, NoFields
  <2> QED
    BY <2>1, <2>2 DEF LookUpInv, HasWritten, PatchKnown, LookedUp
<1>2. TypeInv /\ LookUpInv /\ [Next]_vars => LookUpInv'
  <2> SUFFICES ASSUME TypeInv, LookUpInv, [Next]_vars PROVE LookUpInv'
    OBVIOUS
  <2>1. CASE UNCHANGED vars
    <3>1. UNCHANGED <<db, cmd, pc, reg, exit, changed, touched>>
      BY <2>1 DEF vars
    <3>2. /\ HasChanged' = HasChanged /\ Running' = Running /\ IsRefused' = IsRefused
          /\ Steps' = Steps
      BY <3>1 DEF HasChanged, Running, IsRefused, Steps
    <3> QED
      BY <3>1, <3>2 DEF LookUpInv, HasWritten, PatchKnown, LookedUp, AllReady, Ready, IsThere
  <2> QED
    BY <2>1, GetKeeps, SearchKeeps, ReadingKeeps, AcceptKeeps, EditKeeps, CreateKeeps,
       DeleteKeeps, ChangeKeeps, RemoveKeeps, RequestKeeps, EndingKeeps, FinishKeeps,
       LostKeeps, AgainKeeps, OthersDisturb
       DEF Next, Step
<1> QED
  BY <1>1, <1>2, TypeInvariance, PTL DEF Spec

\* A command about one thing that is refused, for its arguments or because
\* something is missing or exists, has changed nothing, if every such command
\* looks up first what it needs.  It says nothing of a reviewer or an assignee
\* the server does not know: that refusal, exit "unknown", comes when labels
\* have been changed already (pull_edit.go:58-68, issue_edit.go:93-99).
THEOREM RefusedIsUnchanged ==
    ASSUME OneThingLooksUpFirst(Commands)
    PROVE  Spec => []RefusedUnchanged
<1>1. TypeInv /\ LookUpInv => RefusedUnchanged
  <2> SUFFICES ASSUME TypeInv, LookUpInv, IsRefused, touched = {}, OneThing(Asked), HasChanged
               PROVE  FALSE
    BY DEF RefusedUnchanged, IsRefused, Refusals, OneThing, HasChanged
  <2>1. LooksUpFirst(Steps)
    BY DEF TypeInv, StepInv, Asked, Steps, OneThingLooksUpFirst
  <2> QED
    BY <2>1 DEF LookUpInv, LookedUp
<1> QED
  BY <1>1, TypeInvariance, LookUpInvariance, PTL

----------------------------------------------------------------------------
(* Only what is asked: what a change by the command leaves.                *)

\* Every row stays, changed as it was asked, or goes as it was asked.
OldRowsAsked ==
    \A r \in db :
       \/ \E s \in db' : s.id = r.id /\ \A f \in DOMAIN r : MayChange(r, s, f)
       \/ MayGo(r) /\ \A s \in db' : s.id # r.id

\* A row that is new was asked for.
NewRowsAsked ==
    \A s \in db' :
       (\A r \in db : r.id # s.id) =>
          \E wish \in Asked : wish.to \in {"have", "may"} /\ s.kind = wish.pick.kind
                              /\ s.name = wish.pick.name

IdsStay == \A r \in db : \E s \in db' : s.id = r.id
NoneNew == \A s \in db' : \E r \in db : r.id = s.id
NamesStay == \A s \in db' : s.id = FreshId \/ \E r \in db : r.id = s.id /\ r.name = s.name

AsAsked ==
    /\ OldRowsAsked /\ NewRowsAsked
    /\ IdsStay \/ Deletes(Steps[pc])
    /\ NoneNew \/ Makes(Steps[pc])
    /\ WritesWhatItRead(Steps) => NamesStay

LEMMA NothingWritten ==
    ASSUME db' = db
    PROVE  OldRowsAsked /\ NewRowsAsked /\ IdsStay /\ NoneNew /\ NamesStay
BY DEF OldRowsAsked, NewRowsAsked, IdsStay, NoneNew, NamesStay, MayChange

\* Rows are put in the place of others.
Placed(some, new) ==
    /\ some \subseteq db
    /\ \A s : s \in db' <=> s \in db \ some \/ \E r \in some : s = new[r]
    /\ \A r \in some : new[r].id = r.id /\ \A f \in DOMAIN r : MayChange(r, new[r], f)

LEMMA RowsReplaced ==
    ASSUME NEW some, NEW new, Placed(some, new)
    PROVE  /\ OldRowsAsked /\ NewRowsAsked /\ IdsStay /\ NoneNew
           /\ (\A r \in some : new[r].name = r.name) => NamesStay
<1>1. \A r \in db : \E s \in db' : s.id = r.id /\ \A f \in DOMAIN r : MayChange(r, s, f)
  <2> SUFFICES ASSUME NEW r \in db
               PROVE  \E s \in db' : s.id = r.id /\ \A f \in DOMAIN r : MayChange(r, s, f)
    OBVIOUS
  <2>1. CASE r \in some
    BY <2>1 DEF Placed
  <2>2. CASE r \notin some
    BY <2>2 DEF MayChange, Placed
  <2> QED
    BY <2>1, <2>2
<1>2. OldRowsAsked /\ IdsStay
  BY <1>1 DEF OldRowsAsked, IdsStay
<1>3. NoneNew /\ NewRowsAsked
  BY DEF NoneNew, NewRowsAsked, Placed
<1>4. (\A r \in some : new[r].name = r.name) => NamesStay
  BY DEF NamesStay, Placed
<1> QED
  BY <1>2, <1>3, <1>4

\* One row is made.
LEMMA RowAdded ==
    ASSUME NEW made, db' = db \cup {made}, made.id = FreshId,
           MayMake(Asked, made.kind, made.name)
    PROVE  OldRowsAsked /\ NewRowsAsked /\ IdsStay /\ NamesStay
<1>1. OldRowsAsked /\ IdsStay
  BY DEF OldRowsAsked, IdsStay, MayChange
<1>2. NewRowsAsked
  BY DEF NewRowsAsked, MayMake
<1>3. NamesStay
  BY DEF NamesStay
<1> QED
  BY <1>1, <1>2, <1>3

\* Rows go, and what belongs to them.
LEMMA RowsGone ==
    ASSUME TypeInv, NEW rows \in SUBSET db,
           db' = {r \in db : r \notin rows /\ r.of \notin {s.id : s \in rows}},
           NEW wish \in Asked, wish.to \in {"go", "may"}, rows \subseteq Picked(wish.pick)
    PROVE  OldRowsAsked /\ NewRowsAsked /\ NoneNew /\ NamesStay
<1>1. OldRowsAsked
  <2> SUFFICES ASSUME NEW r \in db, r \notin db'
               PROVE  MayGo(r) /\ \A s \in db' : s.id # r.id
    BY DEF OldRowsAsked, MayChange
  <2>1. \E p \in rows : p = r \/ p.id = r.of
    OBVIOUS
  <2>2. MayGo(r)
    BY <2>1 DEF MayGo
  <2>3. \A s \in db' : s \in db /\ s # r
    OBVIOUS
  <2> QED
    BY <2>2, <2>3 DEF TypeInv, RowInv, Distinct
<1>2. NewRowsAsked /\ NoneNew /\ NamesStay
  BY DEF NewRowsAsked, NoneNew, NamesStay
<1> QED
  BY <1>1, <1>2

----------------------------------------------------------------------------
(* Only what is asked: the steps whose fields are still to be written.     *)

\* The step after j, or the one that the question at j leads to.
Leads(steps, j, k) ==
    \/ k = j + 1
    \/ steps[j].op = "ask" /\ steps[j].skip \in Nat /\ k = j + 1 + steps[j].skip

\* What is pending then was so before, or is of a step between.
LEMMA PendingBefore ==
    ASSUME NEW steps, NEW j \in Nat \ {0}, NEW k \in Nat, Leads(steps, j, k),
           NEW i \in Pending(steps, k), i < j
    PROVE  i \in Pending(steps, j)
<1>1. j < k
  BY DEF Leads
<1> QED
  BY <1>1 DEF Pending

\* What is pending remains so until an edit or a creation.
LEMMA PendingAfter ==
    ASSUME NEW steps, NEW j \in Nat \ {0}, NEW k \in Nat, Leads(steps, j, k),
           j \in DOMAIN steps, steps[j].op \notin {"edit", "create"}
    PROVE  j \in Pending(steps, k) /\ Pending(steps, j) \subseteq Pending(steps, k)
<1>1. j < k
  BY DEF Leads
<1>2. \A l \in j + 1 .. k - 1 : SkippedOver(steps, l)
  <2> SUFFICES ASSUME NEW l \in j + 1 .. k - 1 PROVE SkippedOver(steps, l)
    OBVIOUS
  <2>1. steps[j].op = "ask" /\ steps[j].skip \in Nat /\ k = j + 1 + steps[j].skip
    BY DEF Leads
  <2>2. j \in 1 .. l - 1 /\ l <= j + steps[j].skip
    BY <2>1
  <2> QED
    BY <2>1, <2>2 DEF SkippedOver
<1>3. j \in Pending(steps, k)
  BY <1>1, <1>2 DEF Pending
<1>4. ASSUME NEW i \in Pending(steps, j) PROVE i \in Pending(steps, k)
  <2>1. i \in 1 .. j - 1 /\ i \in DOMAIN steps
    BY DEF Pending
  <2>2. ASSUME NEW l \in i + 1 .. k - 1, l \in DOMAIN steps, steps[l].op \in {"edit", "create"}
        PROVE  SkippedOver(steps, l)
    <3>1. CASE l < j
      BY <3>1, <2>1, <2>2 DEF Pending
    <3>2. CASE l = j
      BY <3>2, <2>2
    <3>3. CASE l > j
      BY <3>3, <1>1, <1>2
    <3> QED
      BY <3>1, <3>2, <3>3, <2>1
  <2> QED
    BY <1>1, <2>1, <2>2 DEF Pending
<1> QED
  BY <1>3, <1>4

LEMMA FieldsAfter ==
    ASSUME NEW steps, NEW j \in Nat \ {0}, NEW k \in Nat, Leads(steps, j, k),
           j \in DOMAIN steps, steps[j].op \notin {"edit", "create"}
    PROVE  /\ LinkedAt(steps, j) \subseteq LinkedAt(steps, k)
           /\ KeptAt(steps, j) \subseteq KeptAt(steps, k)
           /\ steps[j].op = "get" => /\ steps[j].keep \subseteq KeptAt(steps, k)
                                     /\ steps[j].link # "" => steps[j].link \in LinkedAt(steps, k)
           /\ steps[j].op = "accept" => "milestone" \in LinkedAt(steps, k)
<1>1. j \in Pending(steps, k) /\ Pending(steps, j) \subseteq Pending(steps, k)
  BY PendingAfter
<1>2. PendingGets(steps, j) \subseteq PendingGets(steps, k)
  BY <1>1 DEF PendingGets
<1>3. steps[j].op = "get" => j \in PendingGets(steps, k)
  BY <1>1 DEF PendingGets
<1>4. KeptAt(steps, j) \subseteq KeptAt(steps, k)
  BY <1>2 DEF KeptAt
<1>5. LinkedAt(steps, j) \subseteq LinkedAt(steps, k)
  BY <1>1, <1>2 DEF LinkedAt
<1>6. steps[j].op = "get" => steps[j].keep \subseteq KeptAt(steps, k)
  BY <1>3 DEF KeptAt
<1>7. steps[j].op = "get" /\ steps[j].link # "" => steps[j].link \in LinkedAt(steps, k)
  BY <1>3 DEF LinkedAt
<1>8. steps[j].op = "accept" => "milestone" \in LinkedAt(steps, k)
  BY <1>1 DEF LinkedAt
<1> QED
  BY <1>4, <1>5, <1>6, <1>7, <1>8

----------------------------------------------------------------------------
(* Only what is asked: what has been read is still so.                     *)

IdKnown(id) == \E r \in db \cup touched \cup Rows : r.id = id
\* The row that was read keeps its name, and its id for itself.
SameName(x) == IdKnown(x.id) /\ \A r \in db : r.id = x.id => r.name = x.name

\* What is to be written back is linked, or is as it is in the row found.
PatchAsRead ==
    Running => \A f \in DOMAIN reg.patch :
                  \/ f \in LinkedAt(Steps, pc)
                  \/ f \in KeptAt(Steps, pc) /\ reg.patch[f] = reg.found[f]

\* The row found is the one whose fields are kept.
FoundAsKept ==
    Running /\ pc \in DOMAIN Steps =>
        \A i \in PendingGets(Steps, pc) :
            Steps[i].keep # {} => reg.found.id = Steps[i].pick.id

\* The row found has the name it was looked for by, or was made with.
FoundAsNamed ==
    Running /\ WritesWhatItRead(Steps) /\ pc - 1 \in DOMAIN Steps /\ ~SkippedTo(Steps, pc) =>
        \A name : FindsNamed(Steps[pc - 1], name) => reg.found.name = name /\ SameName(reg.found)

ListedAsRead == WritesWhatItRead(Steps) => \A l \in reg.listed : SameName(l)

\* Unless the command makes rows, all are of the first ones or of others.
KnownRows ==
    (\A j \in DOMAIN Steps : ~Makes(Steps[j])) =>
        \A r \in db : \E t \in touched \cup Rows : t.id = r.id

ReadInv == PatchAsRead /\ FoundAsKept /\ FoundAsNamed /\ ListedAsRead /\ KnownRows

Shape == WritesAsked(Steps, Asked)

\* What a change picks is among what the wish picks.
LEMMA CoveredArePicked ==
    ASSUME TypeInv, ReadInv, Running, pc \in DOMAIN Steps, Writes(Steps[pc]),
           NEW p, Covers(Steps, pc, p), NEW r \in Picked(Steps[pc].pick)
    PROVE  r \in Picked(p)
<1> DEFINE q == Steps[pc].pick
<1>1. r \in db /\ r.kind = q.kind /\ Among(r, q.where)
  BY DEF Picked
<1>2. r.kind = p.kind
  BY <1>1 DEF Covers
<1>3. Among(r, p.where)
  BY <1>1 DEF Covers, Among
<1>4. CASE p.by = "all"
  BY <1>1, <1>2, <1>3, <1>4 DEF Picked
<1>5. CASE p.by = "id" /\ q.by = "id" /\ q.id = p.id
  <2>1. r.id = p.id
    BY <1>5 DEF Picked
  <2> QED
    BY <1>1, <1>2, <1>3, <1>5, <2>1 DEF Picked
<1>6. CASE p.by = "name" /\ PicksNamed(Steps, pc, p.name)
  <2>1. r.name = p.name
    <3>1. CASE q.by = "name" /\ q.name = p.name
      BY <3>1 DEF Picked
    <3>2. CASE q.by = "listed" /\ q.name = p.name
      <4>1. PICK l \in reg.listed : l.id = r.id /\ l.name = q.name
        BY <3>2 DEF Picked
      <4>2. WritesWhatItRead(Steps)
        BY <3>2 DEF WritesWhatItRead
      <4>3. SameName(l)
        BY <4>2 DEF ReadInv, ListedAsRead
      <4> QED
        BY <1>1, <3>2, <4>1, <4>3 DEF SameName
    <3>3. CASE /\ q.by = "found" /\ pc - 1 \in DOMAIN Steps
               /\ FindsNamed(Steps[pc - 1], p.name) /\ ~SkippedTo(Steps, pc)
      <4>1. WritesWhatItRead(Steps)
        BY <3>3 DEF WritesWhatItRead
      <4>2. reg.found.name = p.name /\ SameName(reg.found)
        BY <3>3, <4>1 DEF ReadInv, FoundAsNamed
      <4>3. r.id = reg.found.id
        BY <3>3 DEF Picked
      <4> QED
        BY <1>1, <4>2, <4>3 DEF SameName
    <3> QED
      BY <1>6, <3>1, <3>2, <3>3 DEF PicksNamed
  <2> QED
    BY <1>1, <1>2, <1>3, <1>6, <2>1 DEF Picked
<1> QED
  BY <1>4, <1>5, <1>6 DEF Covers

LEMMA MaySetChanges ==
    ASSUME TypeInv, ReadInv, Running, pc \in DOMAIN Steps, Writes(Steps[pc]),
           NEW f, MaySet(Steps, pc, Asked, f), NEW r \in Picked(Steps[pc].pick), NEW s
    PROVE  MayChange(r, s, f)
<1>1. PICK wish \in Asked : Covers(Steps, pc, wish.pick) /\ f \in DOMAIN wish.fields
  BY DEF MaySet
<1>2. r \in Picked(wish.pick)
  BY <1>1, CoveredArePicked
<1> QED
  BY <1>1, <1>2 DEF MayChange

LEMMA GoneAsAsked ==
    ASSUME TypeInv, ReadInv, Shape, Running, pc \in DOMAIN Steps, Deletes(Steps[pc]),
           LET rows == Picked(Steps[pc].pick) IN
           db' = {r \in db : r \notin rows /\ r.of \notin {s.id : s \in rows}}
    PROVE  AsAsked
<1>1. PICK rows : rows = Picked(Steps[pc].pick)
  OBVIOUS
<1>2. PICK wish \in Asked : Covers(Steps, pc, wish.pick) /\ wish.to \in {"go", "may"}
  BY DEF Shape, WritesAsked, MayDelete
<1>3. Writes(Steps[pc])
  BY DEF Deletes, Writes
<1>4. rows \subseteq Picked(wish.pick)
  BY <1>1, <1>2, <1>3, CoveredArePicked
<1>5. rows \subseteq db
  BY <1>1, PickedAreRows
<1>6. OldRowsAsked /\ NewRowsAsked /\ NoneNew /\ NamesStay
  BY <1>1, <1>2, <1>4, <1>5, RowsGone
<1> QED
  BY <1>6 DEF AsAsked

\* What is set in place.
SetInPlace(some, new) ==
    /\ some \subseteq Picked(Steps[pc].pick)
    /\ \A s : s \in db' <=> s \in db \ some \/ \E r \in some : s = new[r]
    /\ \A r \in some :
          /\ new[r].id = r.id
          /\ \A f \in DOMAIN r : MaySet(Steps, pc, Asked, f) \/ MayChange(r, new[r], f)
          /\ WritesWhatItRead(Steps) => new[r].name = r.name

LEMMA SetAsAsked ==
    ASSUME TypeInv, ReadInv, Running, pc \in DOMAIN Steps, Writes(Steps[pc]),
           NEW some, NEW new, SetInPlace(some, new)
    PROVE  AsAsked
<1>1. some \subseteq db
  BY PickedAreRows DEF SetInPlace
<1>2. \A r \in some : \A f \in DOMAIN r : MayChange(r, new[r], f)
  BY MaySetChanges DEF SetInPlace
<1>3. Placed(some, new)
  BY <1>1, <1>2 DEF Placed, SetInPlace
<1>4. /\ OldRowsAsked /\ NewRowsAsked /\ IdsStay /\ NoneNew
      /\ (\A r \in some : new[r].name = r.name) => NamesStay
  BY <1>3, RowsReplaced
<1> QED
  BY <1>4 DEF AsAsked, SetInPlace

LEMMA EditAsAsked ==
    ASSUME TypeInv, ReadInv, Shape, DoEdit
    PROVE  AsAsked
<1> DEFINE step == Steps[pc]
           some == Picked(step.pick)
           new == [r \in some |-> Patched(step.patch, Patched(reg.patch, r))]
<1>1. /\ pc \in DOMAIN Steps /\ step.op = "edit" /\ "id" \notin DOMAIN step.patch /\ Running
  BY NowIs DEF DoEdit, TypeInv, StepFits, Now, Running
<1>2. /\ \A f \in DOMAIN step.patch :
            \/ MaySet(Steps, pc, Asked, f)
            \/ f = "name" /\ step.pick.by = "name" /\ step.patch.name = step.pick.name
      /\ \A f \in LinkedAt(Steps, pc) : MaySet(Steps, pc, Asked, f)
  BY <1>1 DEF Shape, WritesAsked, SetsAsked
<1>3. \A f \in DOMAIN reg.patch : \/ f \in LinkedAt(Steps, pc)
                                  \/ f \in KeptAt(Steps, pc) /\ reg.patch[f] = reg.found[f]
  BY <1>1 DEF ReadInv, PatchAsRead
<1>4. KeptAt(Steps, pc) # {} => \A r \in some : r.id = reg.found.id
  <2> SUFFICES ASSUME KeptAt(Steps, pc) # {}, NEW r \in some PROVE r.id = reg.found.id
    OBVIOUS
  <2>1. PICK i \in PendingGets(Steps, pc) : Steps[i].keep # {}
    BY DEF KeptAt
  <2>2. step.pick.by = "id" /\ step.pick.id = Steps[i].pick.id
    BY <1>1, <2>1 DEF Shape, WritesAsked, KeepsOfFound
  <2>3. reg.found.id = Steps[i].pick.id
    BY <1>1, <2>1 DEF ReadInv, FoundAsKept
  <2> QED
    BY <2>2, <2>3 DEF Picked
<1>5. ASSUME NEW r \in some
      PROVE  /\ new[r].id = r.id
             /\ \A f \in DOMAIN r : MaySet(Steps, pc, Asked, f) \/ MayChange(r, new[r], f)
             /\ WritesWhatItRead(Steps) => new[r].name = r.name
  <2>1. IsRow(r) /\ RowKeys \subseteq DOMAIN r
    BY PickedHaveIds DEF TypeInv, IsRow
  <2>2. PICK s : s = new[r]
    OBVIOUS
  <2>3. /\ \A f \in DOMAIN step.patch : s[f] = step.patch[f]
        /\ \A f \in DOMAIN reg.patch : f \notin DOMAIN step.patch => s[f] = reg.patch[f]
        /\ \A f \in DOMAIN r : f \notin DOMAIN step.patch \cup DOMAIN reg.patch => s[f] = r[f]
    BY <2>2 DEF Patched
  <2>4. s.id = r.id
    BY <1>1, <2>1, <2>3 DEF TypeInv, RegInv, RowKeys
  <2>5. ASSUME NEW f \in DOMAIN r PROVE MaySet(Steps, pc, Asked, f) \/ MayChange(r, s, f)
    <3>1. CASE f \in DOMAIN step.patch
      <4>1. CASE f = "name" /\ step.pick.by = "name" /\ step.patch.name = step.pick.name
        <5>1. r.name = step.pick.name
          BY <4>1 DEF Picked
        <5>2. s[f] = step.patch[f]
          BY <2>3, <3>1
        <5> QED
          BY <4>1, <5>1, <5>2 DEF MayChange
      <4> QED
        BY <1>2, <3>1, <4>1
    <3>2. CASE f \notin DOMAIN step.patch /\ f \in DOMAIN reg.patch
      <4>1. CASE f \in KeptAt(Steps, pc) /\ reg.patch[f] = reg.found[f]
        <5>1. s[f] = reg.found[f] /\ reg.found.id = r.id
          BY <1>4, <2>3, <3>2, <4>1
        <5> QED
          BY <5>1 DEF MayChange
      <4> QED
        BY <1>2, <1>3, <3>2, <4>1
    <3>3. CASE f \notin DOMAIN step.patch \cup DOMAIN reg.patch
      BY <2>3, <3>3 DEF MayChange
    <3> QED
      BY <3>1, <3>2, <3>3
  <2>6. ASSUME WritesWhatItRead(Steps) PROVE s.name = r.name
    <3>1. ~Renames(Steps, pc)
      BY <1>1, <2>6 DEF Shape, WritesAsked, ReadRowsStay
    <3>2. "name" \notin DOMAIN step.patch \cup DOMAIN reg.patch
      BY <1>1, <1>3, <3>1 DEF Renames
    <3> QED
      BY <2>1, <2>3, <3>2 DEF RowKeys
  <2> HIDE DEF new
  <2> QED
    BY <2>2, <2>4, <2>5, <2>6
<1>6. \A s : s \in db' <=> s \in db \ some \/ \E r \in some : s = new[r]
  BY DEF DoEdit, Write
<1> HIDE DEF new
<1>7. SetInPlace(some, new)
  BY <1>5, <1>6 DEF SetInPlace
<1>8. PICK q : q = new
  OBVIOUS
<1>9. Writes(step)
  BY <1>1 DEF Writes
<1> QED
  BY <1>1, <1>7, <1>8, <1>9, SetAsAsked

LEMMA DeleteAsAsked ==
    ASSUME TypeInv, ReadInv, Shape, DoDelete
    PROVE  AsAsked
<1>1. pc \in DOMAIN Steps /\ Steps[pc].op = "delete" /\ Running
  BY NowIs DEF DoDelete, TypeInv, Now, Running
<1>2. Deletes(Steps[pc])
  BY <1>1 DEF Deletes
<1> QED
  BY <1>1, <1>2, GoneAsAsked DEF DoDelete, Write

\* One field of one row is set.
LEMMA FieldAsAsked ==
    ASSUME TypeInv, ReadInv, Shape, Running, pc \in DOMAIN Steps,
           Steps[pc].op \in {"change", "add", "remove"}, Steps[pc].field # "id",
           NEW r \in Picked(Steps[pc].pick), NEW v,
           db' = (db \ {r}) \cup {[r EXCEPT ![Steps[pc].field] = v]}
    PROVE  AsAsked
<1> DEFINE step == Steps[pc]
           new == [q \in {r} |-> [q EXCEPT ![step.field] = v]]
<1>1. MaySet(Steps, pc, Asked, step.field)
  BY DEF Shape, WritesAsked, SetsAsked
<1>2. PICK s : s = [r EXCEPT ![step.field] = v]
  OBVIOUS
<1>3. new[r] = s /\ (\A f \in DOMAIN r : f # step.field => s[f] = r[f])
  BY <1>2
<1>4. RowKeys \subseteq DOMAIN r
  BY PickedHaveIds DEF TypeInv, IsRow
<1>5. s.id = r.id
  BY <1>3, <1>4 DEF RowKeys
<1>6. \A f \in DOMAIN r : MaySet(Steps, pc, Asked, f) \/ MayChange(r, s, f)
  BY <1>1, <1>3 DEF MayChange
<1>7. WritesWhatItRead(Steps) => s.name = r.name
  <2> SUFFICES ASSUME WritesWhatItRead(Steps) PROVE s.name = r.name
    OBVIOUS
  <2>1. ~Renames(Steps, pc)
    BY DEF Shape, WritesAsked, ReadRowsStay
  <2>2. step.field # "name"
    BY <2>1 DEF Renames
  <2> QED
    BY <1>3, <1>4, <2>2 DEF RowKeys
<1>8. \A t : t \in db' <=> t \in db \ {r} \/ \E q \in {r} : t = new[q]
  BY <1>2, <1>3
<1> HIDE DEF new
<1>9. SetInPlace({r}, new)
  BY <1>3, <1>5, <1>6, <1>7, <1>8 DEF SetInPlace
<1>10. Writes(step)
  BY DEF Writes
<1> QED
  BY <1>9, <1>10, SetAsAsked

LEMMA ChangeAsAsked ==
    ASSUME TypeInv, ReadInv, Shape, DoChange
    PROVE  AsAsked
<1>1. /\ pc \in DOMAIN Steps /\ Steps[pc].op \in {"change", "add"} /\ Steps[pc].field # "id"
      /\ Running
  BY NowIs DEF DoChange, TypeInv, StepFits, Now, Running
<1>2. PICK r \in Picked(Steps[pc].pick) :
         \E v : db' = (db \ {r}) \cup {[r EXCEPT ![Steps[pc].field] = v]}
  BY DEF DoChange, Write
<1> QED
  BY <1>1, <1>2, FieldAsAsked

LEMMA RemoveAsAsked ==
    ASSUME TypeInv, ReadInv, Shape, DoRemove
    PROVE  AsAsked
<1>1. pc \in DOMAIN Steps /\ Steps[pc].op = "remove" /\ Steps[pc].field # "id" /\ Running
  BY NowIs DEF DoRemove, TypeInv, StepFits, Now, Running
<1>2. PICK r \in Picked(Steps[pc].pick) :
         \E v : db' = (db \ {r}) \cup {[r EXCEPT ![Steps[pc].field] = v]}
  BY DEF DoRemove, Write
<1> QED
  BY <1>1, <1>2, FieldAsAsked

LEMMA MadeAsAsked ==
    ASSUME pc \in DOMAIN Steps, Makes(Steps[pc]), NEW made, db' = db \cup {made},
           made.id = FreshId, MayMake(Asked, made.kind, made.name)
    PROVE  AsAsked
<1>1. OldRowsAsked /\ NewRowsAsked /\ IdsStay /\ NamesStay
  BY RowAdded
<1> QED
  BY <1>1 DEF AsAsked

\* What a row that is there already becomes when it is set.
Over(made, r) == [Patched(made, r) EXCEPT !.id = r.id, !.of = r.of]

LEMMA OverIs ==
    ASSUME NEW made, NEW r, IsRow(r)
    PROVE  /\ Over(made, r).id = r.id /\ Over(made, r).of = r.of
           /\ \A f \in DOMAIN r \ {"id", "of"} :
                 Over(made, r)[f] = IF f \in DOMAIN made THEN made[f] ELSE r[f]
<1>1. PICK q : q = Patched(made, r)
  OBVIOUS
<1>2. {"id", "of"} \subseteq DOMAIN q
  BY <1>1 DEF Patched, IsRow, RowKeys
<1>3. \A f \in DOMAIN r : f \in DOMAIN q /\ q[f] = IF f \in DOMAIN made THEN made[f] ELSE r[f]
  BY <1>1 DEF Patched
<1>4. Over(made, r) = [q EXCEPT !.id = r.id, !.of = r.of]
  BY <1>1 DEF Over
<1> QED
  BY <1>2, <1>3, <1>4

\* The row that is made has the name it was to be made with.
LEMMA MadeNamed ==
    ASSUME TypeInv, ReadInv, Shape, DoCreate
    PROVE  LET step == Steps[pc]
               labelled == IF "labels" \in DOMAIN step.row
                           THEN [step.row EXCEPT !.labels = {l.id : l \in reg.add}] ELSE step.row
               made == [Patched(reg.patch, labelled) EXCEPT !.id = FreshId, !.of = Owner(step)]
           IN  /\ made.kind = step.row.kind /\ made.name = step.row.name /\ made.id = FreshId
               /\ DOMAIN reg.patch = {} => DOMAIN made = DOMAIN step.row
<1> DEFINE step == Steps[pc]
           labelled == IF "labels" \in DOMAIN step.row
                       THEN [step.row EXCEPT !.labels = {l.id : l \in reg.add}] ELSE step.row
           one == [Patched(reg.patch, labelled) EXCEPT !.id = FreshId, !.of = Owner(step)]
<1>1. /\ pc \in DOMAIN Steps /\ step.op = "create" /\ RowKeys \subseteq DOMAIN step.row /\ Running
  BY NowIs DEF DoCreate, TypeInv, StepFits, RowKeys, Now, Running
<1>2. {"kind", "name"} \cap (LinkedAt(Steps, pc) \cup KeptAt(Steps, pc)) = {}
  BY <1>1 DEF Shape, WritesAsked, MakesAsked
<1>3. DOMAIN reg.patch \subseteq LinkedAt(Steps, pc) \cup KeptAt(Steps, pc)
  BY <1>1 DEF ReadInv, PatchAsRead
<1>4. PICK l : l = labelled
  OBVIOUS
<1>5. DOMAIN l = DOMAIN step.row /\ l.kind = step.row.kind /\ l.name = step.row.name
  BY <1>1, <1>4 DEF RowKeys
<1>6. PICK q : q = Patched(reg.patch, l)
  OBVIOUS
<1>7. /\ RowKeys \subseteq DOMAIN q /\ q.kind = l.kind /\ q.name = l.name
      /\ DOMAIN reg.patch = {} => DOMAIN q = DOMAIN l
  BY <1>1, <1>2, <1>3, <1>5, <1>6 DEF Patched, RowKeys
<1>8. PICK m : m = one
  OBVIOUS
<1>9. m = [q EXCEPT !.id = FreshId, !.of = Owner(step)]
  BY <1>4, <1>6, <1>8
<1>10. m.kind = q.kind /\ m.name = q.name /\ m.id = FreshId /\ DOMAIN m = DOMAIN q
  BY <1>7, <1>9 DEF RowKeys
<1> HIDE DEF one
<1>11. /\ one.kind = step.row.kind /\ one.name = step.row.name /\ one.id = FreshId
       /\ DOMAIN reg.patch = {} => DOMAIN one = DOMAIN step.row
  BY <1>5, <1>7, <1>8, <1>10
<1> QED
  BY <1>11 DEF one

LEMMA CreateAsAsked ==
    ASSUME TypeInv, ReadInv, Shape, DoCreate
    PROVE  AsAsked
<1> DEFINE step == Steps[pc]
           same == Picked(step.pick)
           labelled == IF "labels" \in DOMAIN step.row
                       THEN [step.row EXCEPT !.labels = {l.id : l \in reg.add}] ELSE step.row
           one == [Patched(reg.patch, labelled) EXCEPT !.id = FreshId, !.of = Owner(step)]
<1>1. /\ pc \in DOMAIN Steps /\ step.op = "create" /\ RowKeys \subseteq DOMAIN step.row /\ Running
  BY NowIs DEF DoCreate, TypeInv, StepFits, RowKeys, Now, Running
<1>2. Makes(step) /\ Writes(step)
  BY <1>1 DEF Makes, Writes
<1>3. /\ MayMake(Asked, step.row.kind, step.row.name)
      /\ {"kind", "name"} \cap (LinkedAt(Steps, pc) \cup KeptAt(Steps, pc)) = {}
      /\ step.mode = "set" =>
            /\ step.pick.by = "name" /\ step.pick.name = step.row.name /\ step.pick.kind = step.row.kind
            /\ LinkedAt(Steps, pc) = {} /\ KeptAt(Steps, pc) = {}
            /\ \A f \in DOMAIN step.row \ RowFields : MaySet(Steps, pc, Asked, f)
  BY <1>1 DEF Shape, WritesAsked, MakesAsked
<1>4. DOMAIN reg.patch \subseteq LinkedAt(Steps, pc) \cup KeptAt(Steps, pc)
  BY <1>1 DEF ReadInv, PatchAsRead
<1>5. /\ one.kind = step.row.kind /\ one.name = step.row.name /\ one.id = FreshId
      /\ DOMAIN reg.patch = {} => DOMAIN one = DOMAIN step.row
  BY MadeNamed
<1>6. \/ step.mode = "set" /\ db' = (db \ same) \cup {Over(one, r) : r \in same}
      \/ db' = db \cup {one}
  BY DEF DoCreate, Write, Over
<1> HIDE DEF labelled, one
<1>7. PICK made :
         /\ made = one
         /\ \/ step.mode = "set" /\ db' = (db \ same) \cup {Over(made, r) : r \in same}
            \/ db' = db \cup {made}
  BY <1>6
<1>8. CASE db' = db \cup {made}
  BY <1>1, <1>2, <1>3, <1>5, <1>7, <1>8, MadeAsAsked
<1>9. CASE step.mode = "set" /\ db' = (db \ same) \cup {Over(made, r) : r \in same}
  <2> DEFINE new == [r \in same |-> Over(made, r)]
  <2>1. DOMAIN made = DOMAIN step.row
    BY <1>3, <1>4, <1>5, <1>7, <1>9
  <2>2. ASSUME NEW r \in same
        PROVE  /\ new[r].id = r.id
               /\ \A f \in DOMAIN r : MaySet(Steps, pc, Asked, f) \/ MayChange(r, new[r], f)
               /\ WritesWhatItRead(Steps) => new[r].name = r.name
    <3>1. IsRow(r) /\ r.kind = made.kind /\ r.name = made.name
      BY <1>3, <1>5, <1>7, <1>9, PickedHaveIds DEF TypeInv, Picked
    <3>2. PICK s : s = Over(made, r)
      OBVIOUS
    <3>3. /\ s.id = r.id /\ s.of = r.of
          /\ \A f \in DOMAIN r \ {"id", "of"} : s[f] = IF f \in DOMAIN made THEN made[f] ELSE r[f]
      BY <3>1, <3>2, OverIs
    <3>4. s.name = r.name /\ s.kind = r.kind
      BY <3>1, <3>3 DEF IsRow, RowKeys
    <3>5. \A f \in DOMAIN r : MaySet(Steps, pc, Asked, f) \/ s[f] = r[f]
      BY <1>3, <1>9, <2>1, <3>3, <3>4 DEF RowFields
    <3> QED
      BY <3>2, <3>3, <3>4, <3>5 DEF MayChange
  <2>3. \A s : s \in db' <=> s \in db \ same \/ \E r \in same : s = new[r]
    BY <1>9
  <2> HIDE DEF new
  <2>4. SetInPlace(same, new)
    BY <2>2, <2>3 DEF SetInPlace
  <2> QED
    BY <1>1, <1>2, <2>4, SetAsAsked
<1> HIDE DEF same
<1> QED
  BY <1>7, <1>8, <1>9

LEMMA RequestAsAsked ==
    ASSUME TypeInv, ReadInv, Shape, DoRequest
    PROVE  AsAsked
<1> DEFINE step == Steps[pc]
           some == Picked(step.pick)
           new == [r \in some |-> Patched(step.body, r)]
           blank == Row(step.pick.kind, 0, step.pick.name, 0)
<1>1. pc \in DOMAIN Steps /\ step.op = "request" /\ "id" \notin DOMAIN step.body /\ Running
  BY NowIs DEF DoRequest, TypeInv, StepFits, Now, Running
<1>2. db' = Requested(step)
  BY DEF DoRequest, Write
<1>3. CASE step.method = "DELETE"
  <2>1. Deletes(step)
    BY <1>1, <1>3 DEF Deletes
  <2>2. db' = {r \in db : r \notin some /\ r.of \notin {s.id : s \in some}}
    BY <1>2, <1>3 DEF Requested
  <2> QED
    BY <1>1, <2>1, <2>2, GoneAsAsked
<1>4. CASE step.method = "PATCH"
  <2>1. \A f \in DOMAIN step.body : MaySet(Steps, pc, Asked, f)
    BY <1>1, <1>4 DEF Shape, WritesAsked, SetsAsked
  <2>2. ASSUME NEW r \in some
        PROVE  /\ new[r].id = r.id
               /\ \A f \in DOMAIN r : MaySet(Steps, pc, Asked, f) \/ MayChange(r, new[r], f)
               /\ WritesWhatItRead(Steps) => new[r].name = r.name
    <3>1. RowKeys \subseteq DOMAIN r
      BY PickedHaveIds DEF TypeInv, IsRow
    <3>2. PICK s : s = Patched(step.body, r)
      OBVIOUS
    <3>3. \A f \in DOMAIN r : f \notin DOMAIN step.body => s[f] = r[f]
      BY <3>2 DEF Patched
    <3>4. s.id = r.id
      BY <1>1, <3>1, <3>3 DEF RowKeys
    <3>5. \A f \in DOMAIN r : MaySet(Steps, pc, Asked, f) \/ s[f] = r[f]
      BY <2>1, <3>3
    <3>6. ASSUME WritesWhatItRead(Steps) PROVE s.name = r.name
      <4>1. ~Renames(Steps, pc)
        BY <1>1, <3>6 DEF Shape, WritesAsked, ReadRowsStay
      <4>2. "name" \notin DOMAIN step.body
        BY <1>1, <1>4, <4>1 DEF Renames
      <4> QED
        BY <3>1, <3>3, <4>2 DEF RowKeys
    <3> QED
      BY <3>2, <3>4, <3>5, <3>6 DEF MayChange
  <2>3. \A s : s \in db' <=> s \in db \ some \/ \E r \in some : s = new[r]
    BY <1>2, <1>4 DEF Requested
  <2> HIDE DEF new
  <2>4. SetInPlace(some, new)
    BY <2>2, <2>3 DEF SetInPlace
  <2>5. Writes(step)
    BY <1>1, <1>4 DEF Writes
  <2> QED
    BY <1>1, <2>4, <2>5, SetAsAsked
<1>5. CASE step.method = "POST" /\ step.pick.by = "name"
  <2>1. PICK q : q = Patched(step.body, blank)
    OBVIOUS
  <2>2. PICK made : made = [q EXCEPT !.id = FreshId]
    OBVIOUS
  <2>3. db' = db \cup {made}
    BY <1>2, <1>5, <2>1, <2>2 DEF Requested
  <2>4. MayMake(Asked, step.pick.kind, step.pick.name) /\ {"kind", "name"} \cap DOMAIN step.body = {}
    BY <1>1, <1>5 DEF Shape, WritesAsked, MakesAsked
  <2>5. /\ q.kind = step.pick.kind /\ q.name = step.pick.name
        /\ {"kind", "id", "name"} \subseteq DOMAIN q
    BY <2>1, <2>4 DEF Patched, Row
  <2>6. made.kind = step.pick.kind /\ made.name = step.pick.name /\ made.id = FreshId
    BY <2>2, <2>5
  <2>7. Makes(step)
    BY <1>1, <1>5 DEF Makes
  <2> QED
    BY <1>1, <2>3, <2>4, <2>6, <2>7, MadeAsAsked
<1>6. CASE /\ step.method \notin {"DELETE", "PATCH"}
           /\ ~(step.method = "POST" /\ step.pick.by = "name")
  <2>1. db' = db
    BY <1>2, <1>6 DEF Requested
  <2> QED
    BY <2>1, NothingWritten DEF AsAsked
<1> QED
  BY <1>3, <1>4, <1>5, <1>6

\* All steps that may write.
LEMMA WritingAsAsked ==
    ASSUME TypeInv, ReadInv, Shape,
           DoEdit \/ DoCreate \/ DoDelete \/ DoChange \/ DoRemove \/ DoRequest
    PROVE  AsAsked
BY EditAsAsked, CreateAsAsked, DeleteAsAsked, ChangeAsAsked, RemoveAsAsked, RequestAsAsked

----------------------------------------------------------------------------
(* Only what is asked: what has been read stays so.                        *)

LEMMA SameNameStays ==
    ASSUME TypeInv, NamesStay, \A id : IdKnown(id) => IdKnown(id)', NEW x, SameName(x)
    PROVE  SameName(x)'
<1>1. IdKnown(x.id) /\ IdKnown(x.id)'
  BY DEF SameName
<1>2. x.id # FreshId
  BY <1>1, FreshIdIsNew DEF IdKnown, TypeInv
<1>3. \A s \in db' : s.id = x.id => s.name = x.name
  BY <1>2 DEF NamesStay, SameName
<1> QED
  BY <1>1, <1>3 DEF SameName, IdKnown

LEMMA AskedKeepsNames ==
    ASSUME TypeInv, ReadInv, Shape, pc \in DOMAIN Steps, AsAsked, touched' = touched,
           WritesWhatItRead(Steps)
    PROVE  \A x : SameName(x) => SameName(x)'
<1>1. ASSUME NEW id, IdKnown(id) PROVE IdKnown(id)'
  <2>1. CASE IdsStay
    BY <1>1, <2>1 DEF IdKnown, IdsStay
  <2>2. CASE Deletes(Steps[pc])
    <3>1. \A j \in DOMAIN Steps : ~Makes(Steps[j])
      BY <2>2 DEF Shape, WritesAsked, ReadRowsStay
    <3>2. \A r \in db : \E t \in touched \cup Rows : t.id = r.id
      BY <3>1 DEF ReadInv, KnownRows
    <3> QED
      BY <1>1, <3>2 DEF IdKnown
  <2> QED
    BY <2>1, <2>2 DEF AsAsked
<1>2. NamesStay
  BY DEF AsAsked
<1> QED
  BY <1>1, <1>2, SameNameStays

LEMMA AskedKeepsKnown ==
    ASSUME ReadInv, pc \in DOMAIN Steps, AsAsked, cmd' = cmd, touched' = touched
    PROVE  KnownRows'
<1>1. Steps' = Steps
  BY DEF Steps
<1> SUFFICES ASSUME \A j \in DOMAIN Steps : ~Makes(Steps[j])
             PROVE  \A r \in db' : \E t \in touched \cup Rows : t.id = r.id
  BY <1>1 DEF KnownRows, Makes
<1>2. NoneNew
  BY DEF AsAsked
<1> QED
  BY <1>2 DEF ReadInv, KnownRows, NoneNew

\* Steps that write nothing.
LEMMA QuietNames ==
    ASSUME ReadInv, cmd' = cmd, UNCHANGED <<db, touched>>
    PROVE  KnownRows' /\ \A x : SameName(x) => SameName(x)'
<1>1. Steps' = Steps
  BY DEF Steps
<1>2. KnownRows'
  BY <1>1 DEF ReadInv, KnownRows, Makes
<1> QED
  BY <1>2 DEF SameName, IdKnown

LEMMA ListedStays ==
    ASSUME cmd' = cmd,
           WritesWhatItRead(Steps) => \A l \in reg'.listed : SameName(l)'
    PROVE  ListedAsRead'
<1>1. Steps' = Steps
  BY DEF Steps
<1> SUFFICES ASSUME WritesWhatItRead(Steps) PROVE \A l \in reg'.listed : SameName(l)'
  BY <1>1 DEF ListedAsRead
<1> QED
  OBVIOUS

\* Nothing is read, and the command does not go on.
LEMMA StayingReads ==
    ASSUME TypeInv, ReadInv, UNCHANGED <<cmd, pc>>, Running' => Running,
           reg'.found = reg.found, reg'.patch = reg.patch,
           WritesWhatItRead(Steps) => \A x : SameName(x) => SameName(x)'
    PROVE  PatchAsRead' /\ FoundAsKept' /\ FoundAsNamed'
<1>1. Steps' = Steps
  BY DEF Steps
<1>2. PatchAsRead'
  BY <1>1 DEF ReadInv, PatchAsRead
<1>3. FoundAsKept'
  BY <1>1 DEF ReadInv, FoundAsKept
<1>4. FoundAsNamed'
  <2> SUFFICES ASSUME Running, WritesWhatItRead(Steps), pc - 1 \in DOMAIN Steps, ~SkippedTo(Steps, pc),
                      NEW name, FindsNamed(Steps[pc - 1], name)
               PROVE  reg'.found.name = name /\ SameName(reg.found)'
    BY <1>1 DEF FoundAsNamed
  <2>1. PICK x : x = reg.found
    OBVIOUS
  <2>2. x.name = name /\ SameName(x)
    BY <2>1 DEF ReadInv, FoundAsNamed
  <2>3. SameName(x)'
    BY <2>2
  <2> QED
    BY <2>1, <2>2, <2>3 DEF SameName, IdKnown
<1> QED
  BY <1>2, <1>3, <1>4

\* The row found, after the step at this place.
FoundNext ==
    LET step == Steps[pc] IN
    /\ step.op \notin {"get", "search", "create"} => reg'.found = reg.found
    /\ step.op = "get" /\ step.pick.by = "id" => reg'.found.id = step.pick.id
    /\ WritesWhatItRead(Steps) =>
          \A name : FindsNamed(step, name) => reg'.found.name = name /\ SameName(reg.found)'

\* What is to be written back, after the step at this place.
PatchNext ==
    LET step == Steps[pc] IN
    \A f \in DOMAIN reg'.patch :
       \/ step.op \notin {"edit", "create"} /\ f \in DOMAIN reg.patch /\ reg'.patch[f] = reg.patch[f]
       \/ step.op = "accept" /\ f = "milestone"
       \/ step.op = "get" /\ step.link # "" /\ f = step.link
       \/ step.op = "get" /\ f \in step.keep /\ reg'.patch[f] = reg'.found[f]

\* While fields are kept no other row is found.
LEMMA NothingKept ==
    ASSUME Shape, pc \in DOMAIN Steps, Steps[pc].op \in {"get", "search", "create"}
    PROVE  KeptAt(Steps, pc) = {} /\ \A i \in PendingGets(Steps, pc) : Steps[i].keep = {}
<1>1. \A i \in PendingGets(Steps, pc) : Steps[i].keep = {}
  BY DEF Shape, WritesAsked, KeepsOfFound
<1> QED
  BY <1>1 DEF KeptAt

LEMMA PatchGoesOn ==
    ASSUME TypeInv, ReadInv, Shape, Running, cmd' = cmd, pc \in DOMAIN Steps,
           pc' \in Nat, Leads(Steps, pc, pc'), FoundNext, PatchNext
    PROVE  PatchAsRead'
<1>1. Steps' = Steps
  BY DEF Steps
<1>2. pc \in Nat \ {0}
  BY PlaceIsNumber
<1> SUFFICES ASSUME NEW f \in DOMAIN reg'.patch
             PROVE  \/ f \in LinkedAt(Steps, pc')
                    \/ f \in KeptAt(Steps, pc') /\ reg'.patch[f] = reg'.found[f]
  BY <1>1 DEF PatchAsRead
<1>3. PICK k \in Nat : k = pc'
  OBVIOUS
<1>4. Steps[pc].op \notin {"edit", "create"} =>
        /\ LinkedAt(Steps, pc) \subseteq LinkedAt(Steps, k)
        /\ KeptAt(Steps, pc) \subseteq KeptAt(Steps, k)
        /\ Steps[pc].op = "get" => /\ Steps[pc].keep \subseteq KeptAt(Steps, k)
                                   /\ Steps[pc].link # "" => Steps[pc].link \in LinkedAt(Steps, k)
        /\ Steps[pc].op = "accept" => "milestone" \in LinkedAt(Steps, k)
  BY <1>2, <1>3, FieldsAfter
<1>5. CASE /\ Steps[pc].op \notin {"edit", "create"} /\ f \in DOMAIN reg.patch
           /\ reg'.patch[f] = reg.patch[f]
  <2>1. CASE f \in LinkedAt(Steps, pc)
    BY <1>3, <1>4, <1>5, <2>1
  <2>2. CASE f \in KeptAt(Steps, pc) /\ reg.patch[f] = reg.found[f]
    <3>1. reg'.found = reg.found
      BY <1>5, <2>2, NothingKept DEF FoundNext
    <3> QED
      BY <1>3, <1>4, <1>5, <2>2, <3>1
  <2> QED
    BY <1>5, <2>1, <2>2 DEF ReadInv, PatchAsRead
<1>6. CASE Steps[pc].op = "accept" /\ f = "milestone"
  BY <1>3, <1>4, <1>6
<1>7. CASE Steps[pc].op = "get" /\ Steps[pc].link # "" /\ f = Steps[pc].link
  BY <1>3, <1>4, <1>7
<1>8. CASE Steps[pc].op = "get" /\ f \in Steps[pc].keep /\ reg'.patch[f] = reg'.found[f]
  BY <1>3, <1>4, <1>8
<1> QED
  BY <1>5, <1>6, <1>7, <1>8 DEF PatchNext

LEMMA KeptGoesOn ==
    ASSUME TypeInv, ReadInv, Shape, Running, cmd' = cmd, pc \in DOMAIN Steps,
           pc' \in Nat, Leads(Steps, pc, pc'), FoundNext
    PROVE  FoundAsKept'
<1>1. Steps' = Steps
  BY DEF Steps
<1>2. pc \in Nat \ {0}
  BY PlaceIsNumber
<1> SUFFICES ASSUME pc' \in DOMAIN Steps, NEW i \in PendingGets(Steps, pc'), Steps[i].keep # {}
             PROVE  reg'.found.id = Steps[i].pick.id
  BY <1>1 DEF FoundAsKept
<1>3. PICK k \in Nat : k = pc'
  OBVIOUS
<1>4. i \in Pending(Steps, k) /\ Steps[i].op = "get" /\ i \in 1 .. k - 1
  BY <1>3 DEF PendingGets, Pending
<1>5. Steps[i].pick.by = "id" /\ ~SkippedOver(Steps, i)
  BY DEF Shape, WritesAsked, KeepsOfFound
<1>6. CASE i < pc
  <2>1. i \in PendingGets(Steps, pc)
    BY <1>2, <1>3, <1>4, <1>6, PendingBefore DEF PendingGets
  <2>2. Steps[pc].op \notin {"get", "search", "create"}
    BY <2>1, NothingKept
  <2>3. reg'.found = reg.found
    BY <2>2 DEF FoundNext
  <2> QED
    BY <2>1, <2>3 DEF ReadInv, FoundAsKept
<1>7. CASE i = pc
  BY <1>4, <1>5, <1>7 DEF FoundNext
<1>8. CASE i > pc
  <2>0. k # pc + 1
    BY <1>2, <1>4, <1>8
  <2>1. Steps[pc].op = "ask" /\ Steps[pc].skip \in Nat /\ k = pc + 1 + Steps[pc].skip
    BY <1>3, <2>0 DEF Leads
  <2>2. pc \in 1 .. i - 1 /\ i <= pc + Steps[pc].skip
    BY <1>2, <1>4, <1>8, <2>1
  <2> QED
    BY <1>5, <2>1, <2>2 DEF SkippedOver
<1> QED
  BY <1>2, <1>4, <1>6, <1>7, <1>8

LEMMA NamedGoesOn ==
    ASSUME TypeInv, cmd' = cmd, pc \in DOMAIN Steps,
           pc' \in Nat, Leads(Steps, pc, pc'), FoundNext
    PROVE  FoundAsNamed'
<1>1. Steps' = Steps
  BY DEF Steps
<1>2. pc \in Nat \ {0}
  BY PlaceIsNumber
<1>3. PICK k \in Nat : k = pc'
  OBVIOUS
<1> SUFFICES ASSUME WritesWhatItRead(Steps), ~SkippedTo(Steps, k),
                    NEW name, FindsNamed(Steps[k - 1], name)
             PROVE  reg'.found.name = name /\ SameName(reg.found)'
  BY <1>1, <1>3 DEF FoundAsNamed
<1>4. CASE k = pc + 1
  <2>1. k - 1 = pc
    BY <1>2, <1>4
  <2> QED
    BY <2>1 DEF FoundNext
<1>5. CASE k # pc + 1
  <2>1. Steps[pc].op = "ask" /\ Steps[pc].skip # 0 /\ k = pc + 1 + Steps[pc].skip
        /\ Steps[pc].skip \in Nat
    BY <1>2, <1>3, <1>5 DEF Leads
  <2>2. pc \in 1 .. k - 1
    BY <1>2, <2>1
  <2>3. SkippedTo(Steps, k)
    BY <2>1, <2>2 DEF SkippedTo
  <2> QED
    BY <2>3
<1> QED
  BY <1>4, <1>5

\* The command goes on with a next step, or ends.
LEMMA GoingReads ==
    ASSUME TypeInv, ReadInv, Shape, Running, cmd' = cmd, pc \in DOMAIN Steps,
           Running' => pc' \in Nat /\ Leads(Steps, pc, pc') /\ FoundNext /\ PatchNext
    PROVE  PatchAsRead' /\ FoundAsKept' /\ FoundAsNamed'
<1>1. CASE Running'
  BY <1>1, PatchGoesOn, KeptGoesOn, NamedGoesOn
<1>2. CASE ~Running'
  BY <1>2 DEF PatchAsRead, FoundAsKept, FoundAsNamed
<1> QED
  BY <1>1, <1>2

\* Nothing but the place in the command changes, or what it has read of lists.
LEMMA UnreadGoesOn ==
    ASSUME TypeInv, ReadInv, Shape, Running, cmd' = cmd, pc \in DOMAIN Steps,
           Steps[pc].op \notin {"get", "search", "create", "edit"},
           Running' => pc' \in Nat /\ Leads(Steps, pc, pc'),
           reg'.found = reg.found, reg'.patch = reg.patch
    PROVE  PatchAsRead' /\ FoundAsKept' /\ FoundAsNamed'
<1>1. FoundNext /\ PatchNext
  BY DEF FoundNext, PatchNext, FindsNamed
<1> QED
  BY <1>1, GoingReads

LEMMA ListedKept ==
    ASSUME ReadInv, cmd' = cmd, reg'.listed = reg.listed,
           WritesWhatItRead(Steps) => \A x : SameName(x) => SameName(x)'
    PROVE  ListedAsRead'
<1> SUFFICES ASSUME WritesWhatItRead(Steps), NEW l \in reg'.listed PROVE SameName(l)'
  BY ListedStays
<1> QED
  BY DEF ReadInv, ListedAsRead

LEMMA AnsweredLeads ==
    ASSUME TypeInv, Proceed \/ Answered
    PROVE  Running' => pc' \in Nat /\ Leads(Steps, pc, pc')
<1>1. pc' = pc + 1 \/ ~Running'
  BY AnsweredIs
<1> QED
  BY <1>1, PlaceIsNumber DEF Leads

LEMMA AskedKeeps ==
    ASSUME TypeInv, ReadInv, Shape, pc \in DOMAIN Steps, AsAsked, cmd' = cmd, touched' = touched,
           reg'.listed = reg.listed
    PROVE  /\ KnownRows' /\ ListedAsRead'
           /\ WritesWhatItRead(Steps) => \A x : SameName(x) => SameName(x)'
<1>1. WritesWhatItRead(Steps) => \A x : SameName(x) => SameName(x)'
  BY AskedKeepsNames
<1> QED
  BY <1>1, AskedKeepsKnown, ListedKept

LEMMA QuietKeeps ==
    ASSUME ReadInv, UNCHANGED <<db, cmd, touched>>, reg'.listed = reg.listed
    PROVE  /\ KnownRows' /\ ListedAsRead'
           /\ \A x : SameName(x) => SameName(x)'
BY QuietNames, ListedKept

LEMMA EditReads ==
    ASSUME TypeInv, ReadInv, Shape, DoEdit
    PROVE  ReadInv'
<1>1. pc \in DOMAIN Steps /\ Steps[pc].op = "edit" /\ Running
  BY NowIs DEF DoEdit, TypeInv, Now, Running
<1>2. /\ cmd' = cmd /\ touched' = touched
      /\ reg'.listed = reg.listed /\ reg'.found = reg.found /\ reg'.patch = NoFields
  BY DEF DoEdit, others, TypeInv, RegInv, RegFields
<1>3. Running' => pc' \in Nat /\ Leads(Steps, pc, pc')
  BY AnsweredLeads DEF DoEdit
<1>4. FoundNext /\ PatchNext
  BY <1>1, <1>2 DEF FoundNext, PatchNext, FindsNamed, NoFields
<1>5. PatchAsRead' /\ FoundAsKept' /\ FoundAsNamed'
  BY <1>1, <1>2, <1>3, <1>4, GoingReads
<1>6. KnownRows' /\ ListedAsRead'
  BY <1>1, <1>2, EditAsAsked, AskedKeeps
<1> QED
  BY <1>5, <1>6 DEF ReadInv

LEMMA CreateReads ==
    ASSUME TypeInv, ReadInv, Shape, DoCreate
    PROVE  ReadInv'
<1> DEFINE step == Steps[pc]
           same == Picked(step.pick)
           labelled == IF "labels" \in DOMAIN step.row
                       THEN [step.row EXCEPT !.labels = {l.id : l \in reg.add}] ELSE step.row
           one == [Patched(reg.patch, labelled) EXCEPT !.id = FreshId, !.of = Owner(step)]
<1>1. /\ pc \in DOMAIN Steps /\ step.op = "create" /\ RowKeys \subseteq DOMAIN step.row /\ Running
  BY NowIs DEF DoCreate, TypeInv, StepFits, RowKeys, Now, Running
<1>2. cmd' = cmd /\ touched' = touched
  BY DEF DoCreate, others
<1>3. /\ reg'.listed = reg.listed /\ reg'.patch = NoFields
      /\ step.mode # "set" /\ ~step.within => reg'.found = one /\ db' = db \cup {one}
  <2>1. DOMAIN reg = RegFields
    BY DEF TypeInv, RegInv
  <2>2. \/ step.mode = "set" /\ reg' = [reg EXCEPT !.patch = NoFields]
        \/ /\ db' = db \cup {one}
           /\ reg' = [reg EXCEPT !.patch = NoFields,
                                 !.found = IF step.within THEN @ ELSE one]
    BY DEF DoCreate, Write
  <2> HIDE DEF labelled, one
  <2> QED
    BY <2>1, <2>2 DEF RegFields
<1>4. one.name = step.row.name /\ one.id = FreshId
  BY <1>1, MadeNamed
<1> HIDE DEF labelled, one
<1>5. Running' => pc' \in Nat /\ Leads(Steps, pc, pc')
  BY AnsweredLeads DEF DoCreate
<1>6. KnownRows' /\ ListedAsRead'
  BY <1>1, <1>2, <1>3, CreateAsAsked, AskedKeeps
<1>7. ASSUME NEW name, FindsNamed(step, name)
      PROVE  reg'.found.name = name /\ SameName(reg.found)'
  <2>1. step.mode # "set" /\ ~step.within /\ step.row.name = name
    BY <1>1, <1>7 DEF FindsNamed
  <2>2. PICK made : made = one
    OBVIOUS
  <2>3. reg'.found = made /\ db' = db \cup {made} /\ made.id = FreshId /\ made.name = name
    BY <1>3, <1>4, <2>1, <2>2
  <2>4. \A r \in db : r.id # FreshId
    BY FreshIdIsNew DEF TypeInv, RowInv, Distinct, IsRow
  <2>5. \A r \in db' : r.id = made.id => r = made
    BY <2>3, <2>4
  <2>6. SameName(made)'
    BY <2>3, <2>5 DEF SameName, IdKnown
  <2> QED
    BY <2>3, <2>6 DEF SameName, IdKnown
<1>8. FoundNext /\ PatchNext
  BY <1>1, <1>3, <1>7 DEF FoundNext, PatchNext, NoFields
<1>9. PatchAsRead' /\ FoundAsKept' /\ FoundAsNamed'
  BY <1>1, <1>2, <1>5, <1>8, GoingReads
<1> QED
  BY <1>6, <1>9 DEF ReadInv

LEMMA OtherWritesRead ==
    ASSUME TypeInv, ReadInv, Shape, DoDelete \/ DoChange \/ DoRequest
    PROVE  ReadInv'
<1>1. pc \in DOMAIN Steps /\ Steps[pc].op \in {"delete", "change", "add", "request"} /\ Running
  BY NowIs DEF DoDelete, DoChange, DoRequest, TypeInv, Now, Running
<1>2. UNCHANGED <<cmd, touched, reg>>
  BY DEF DoDelete, DoChange, DoRequest, others
<1>3. Running' => pc' \in Nat /\ Leads(Steps, pc, pc')
  BY AnsweredLeads DEF DoDelete, DoChange, DoRequest
<1>4. PatchAsRead' /\ FoundAsKept' /\ FoundAsNamed'
  BY <1>1, <1>2, <1>3, UnreadGoesOn
<1>5. KnownRows' /\ ListedAsRead'
  BY <1>1, <1>2, WritingAsAsked, AskedKeeps
<1> QED
  BY <1>4, <1>5 DEF ReadInv

LEMMA RemoveReads ==
    ASSUME TypeInv, ReadInv, Shape, DoRemove
    PROVE  ReadInv'
<1>1. pc \in DOMAIN Steps /\ Running
  BY NowIs DEF DoRemove, TypeInv, Now, Running
<1>2. UNCHANGED <<cmd, touched, pc>>
  BY DEF DoRemove, others, End
<1>3. reg'.found = reg.found /\ reg'.patch = reg.patch /\ reg'.listed = reg.listed
  <2>1. reg' = reg \/ \E m : reg' = [reg EXCEPT !.rm = m]
    BY DEF DoRemove
  <2> QED
    BY <2>1 DEF TypeInv, RegInv, RegFields
<1>4. /\ KnownRows' /\ ListedAsRead'
      /\ WritesWhatItRead(Steps) => \A x : SameName(x) => SameName(x)'
  BY <1>1, <1>2, <1>3, RemoveAsAsked, AskedKeeps
<1>5. PatchAsRead' /\ FoundAsKept' /\ FoundAsNamed'
  BY <1>1, <1>2, <1>3, <1>4, StayingReads
<1> QED
  BY <1>4, <1>5 DEF ReadInv

LEMMA GetReads ==
    ASSUME TypeInv, ReadInv, Shape, DoGet
    PROVE  ReadInv'
<1> DEFINE step == Steps[pc]
<1>1. pc \in DOMAIN Steps /\ step.op = "get" /\ Running
  BY NowIs DEF DoGet, TypeInv, Now, Running
<1>2. UNCHANGED <<db, cmd, touched>>
  BY DEF DoGet, others
<1>3. PICK r \in Picked(step.pick) : reg' = [reg EXCEPT !.found = r, !.patch = Remembered(step, r)]
  BY DEF DoGet
<1>4. reg'.found = r /\ reg'.patch = Remembered(step, r) /\ reg'.listed = reg.listed
  BY <1>3 DEF TypeInv, RegInv, RegFields
<1>5. Running' => pc' \in Nat /\ Leads(Steps, pc, pc')
  <2>1. pc' = pc + 1 \/ exit' = "usage"
    BY DEF DoGet, End
  <2>2. pc' = pc + 1 \/ ~Running'
    BY <2>1 DEF Running
  <2> QED
    BY <2>2, PlaceIsNumber DEF Leads
<1>6. KnownRows' /\ ListedAsRead'
  BY <1>2, <1>4, QuietKeeps
<1>7. FoundNext
  BY <1>1, <1>4 DEF FoundNext, FindsNamed, Picked
<1>8. PatchNext
  <2> SUFFICES ASSUME NEW f \in DOMAIN Remembered(step, r)
               PROVE  \/ f \in DOMAIN reg.patch /\ Remembered(step, r)[f] = reg.patch[f]
                      \/ step.link # "" /\ f = step.link
                      \/ f \in step.keep /\ Remembered(step, r)[f] = r[f]
    BY <1>1, <1>4 DEF PatchNext
  <2>1. PICK p : p = Patched([g \in step.keep |-> r[g]], reg.patch)
    OBVIOUS
  <2>2. \A g \in DOMAIN p : \/ g \in step.keep /\ p[g] = r[g]
                            \/ g \in DOMAIN reg.patch /\ p[g] = reg.patch[g]
    BY <2>1 DEF Patched
  <2>3. CASE step.link = ""
    <3>1. Remembered(step, r) = Patched(NoFields, p)
      BY <2>1, <2>3 DEF Remembered
    <3>2. f \in DOMAIN p /\ Remembered(step, r)[f] = p[f]
      BY <3>1 DEF Patched, NoFields
    <3> QED
      BY <2>2, <3>2
  <2>4. CASE step.link # ""
    <3>1. Remembered(step, r) = Patched([g \in {step.link} |-> r.id], p)
      BY <2>1, <2>4 DEF Remembered
    <3>2. f = step.link \/ (f \in DOMAIN p /\ Remembered(step, r)[f] = p[f])
      BY <3>1 DEF Patched
    <3> QED
      BY <2>2, <2>4, <3>2
  <2> QED
    BY <2>3, <2>4
<1>9. PatchAsRead' /\ FoundAsKept' /\ FoundAsNamed'
  BY <1>1, <1>2, <1>5, <1>7, <1>8, GoingReads
<1> QED
  BY <1>6, <1>9 DEF ReadInv

\* What is found in a page is one of the rows.
LEMMA FoundIsSame ==
    ASSUME TypeInv, NEW r \in db
    PROVE  SameName(r)
BY DEF TypeInv, RowInv, Distinct, SameName, IdKnown

LEMMA SearchReads ==
    ASSUME TypeInv, ReadInv, Shape, DoSearch
    PROVE  ReadInv'
<1> DEFINE step == Steps[pc]
<1>1. pc \in DOMAIN Steps /\ step.op = "search" /\ Running
  BY NowIs DEF DoSearch, TypeInv, Now, Running
<1>2. UNCHANGED <<db, cmd, touched>>
  BY DEF DoSearch, others
<1>3. DOMAIN reg = RegFields
  BY DEF TypeInv, RegInv
<1>4. \/ /\ pc' = pc + 1
         /\ \E r \in PageOf(ListOf(step), reg.page) :
               r.name = step.pick.name /\ reg' = [reg EXCEPT !.found = r, !.page = 1]
      \/ pc' = pc /\ reg' = [reg EXCEPT !.page = @ + 1]
      \/ pc' = pc /\ reg' = reg
  BY DEF DoSearch, End
<1>5. reg'.listed = reg.listed /\ reg'.patch = reg.patch
  BY <1>3, <1>4 DEF RegFields
<1>6. /\ KnownRows' /\ ListedAsRead'
      /\ \A x : SameName(x) => SameName(x)'
  BY <1>2, <1>5, QuietKeeps
<1>7. CASE pc' = pc /\ reg'.found = reg.found
  <2>1. PatchAsRead' /\ FoundAsKept' /\ FoundAsNamed'
    BY <1>1, <1>2, <1>5, <1>6, <1>7, StayingReads
  <2> QED
    BY <1>6, <2>1 DEF ReadInv
<1>8. CASE /\ pc' = pc + 1
           /\ \E r \in PageOf(ListOf(step), reg.page) :
                 r.name = step.pick.name /\ reg' = [reg EXCEPT !.found = r, !.page = 1]
  <2>1. PICK r \in PageOf(ListOf(step), reg.page) :
               r.name = step.pick.name /\ reg' = [reg EXCEPT !.found = r, !.page = 1]
    BY <1>8
  <2>2. r \in db /\ reg'.found = r
    BY <1>3, <2>1, ListedHaveIds DEF TypeInv, RegFields
  <2>3. SameName(r)'
    BY <1>6, <2>2, FoundIsSame
  <2>4. SameName(reg.found)'
    BY <2>2, <2>3 DEF SameName, IdKnown
  <2>5. FoundNext /\ PatchNext
    BY <1>1, <1>5, <2>1, <2>2, <2>4 DEF FoundNext, PatchNext, FindsNamed
  <2>6. pc' \in Nat /\ Leads(Steps, pc, pc')
    BY <1>8, PlaceIsNumber DEF Leads
  <2>7. PatchAsRead' /\ FoundAsKept' /\ FoundAsNamed'
    BY <1>1, <1>2, <2>5, <2>6, GoingReads
  <2> QED
    BY <1>6, <2>7 DEF ReadInv
<1> QED
  BY <1>3, <1>4, <1>7, <1>8 DEF RegFields

LEMMA CollectReads ==
    ASSUME TypeInv, ReadInv, Shape, DoCollect
    PROVE  ReadInv'
<1> DEFINE step == Steps[pc]
<1>1. /\ pc \in DOMAIN Steps /\ step.op = "collect" /\ Running /\ Running'
      /\ step.into \in {"add", "rm", "listed"}
  BY NowIs DEF DoCollect, TypeInv, Now, Running, StepFits
<1>2. UNCHANGED <<db, cmd, touched>>
  BY DEF DoCollect, others
<1>3. DOMAIN reg = RegFields
  BY DEF TypeInv, RegInv
<1>4. PICK m, n : /\ reg' = [reg EXCEPT ![step.into] = m, !.page = n]
                  /\ \A l \in m : l \in db \/ l \in reg[step.into]
  <2>1. \A l \in PageOf(ListOf(step), reg.page) : l \in db
    BY ListedHaveIds DEF TypeInv
  <2>2. PICK match : match = {r \in PageOf(ListOf(step), reg.page) : Sought(step, r)}
    OBVIOUS
  <2>3. PICK before : before = IF reg.page = 1 THEN {} ELSE reg[step.into]
    OBVIOUS
  <2>4. PICK n : reg' = [reg EXCEPT ![step.into] = match \cup before, !.page = n]
    BY <1>1, <1>3, <2>2, <2>3 DEF DoCollect, RegFields
  <2>5. \A l \in match \cup before : l \in db \/ l \in reg[step.into]
    BY <2>1, <2>2, <2>3
  <2> QED
    BY <2>4, <2>5
<1>5. reg'.found = reg.found /\ reg'.patch = reg.patch
  BY <1>1, <1>3, <1>4 DEF RegFields
<1>6. \A l \in reg'.listed : l \in db \/ l \in reg.listed
  BY <1>1, <1>3, <1>4 DEF RegFields
<1>7. KnownRows' /\ \A x : SameName(x) => SameName(x)'
  BY <1>2, QuietNames
<1>8. ListedAsRead'
  <2> SUFFICES ASSUME WritesWhatItRead(Steps), NEW l \in reg'.listed PROVE SameName(l)'
    BY <1>2, ListedStays
  <2>1. SameName(l)
    BY <1>6, FoundIsSame DEF ReadInv, ListedAsRead
  <2> QED
    BY <1>7, <2>1
<1>9. CASE pc' = pc
  <2>1. PatchAsRead' /\ FoundAsKept' /\ FoundAsNamed'
    BY <1>1, <1>2, <1>5, <1>7, <1>9, StayingReads
  <2> QED
    BY <1>7, <1>8, <2>1 DEF ReadInv
<1>10. CASE pc' = pc + 1
  <2>1. pc' \in Nat /\ Leads(Steps, pc, pc')
    BY <1>10, PlaceIsNumber DEF Leads
  <2>2. PatchAsRead' /\ FoundAsKept' /\ FoundAsNamed'
    BY <1>1, <1>2, <1>5, <2>1, UnreadGoesOn
  <2> QED
    BY <1>7, <1>8, <2>2 DEF ReadInv
<1> QED
  BY <1>9, <1>10 DEF DoCollect

LEMMA FormReads ==
    ASSUME TypeInv, ReadInv, Shape, DoSelect \/ DoList \/ NothingToDo \/ DoAsk
    PROVE  ReadInv'
<1>1. /\ pc \in DOMAIN Steps /\ Steps[pc].op \in {"select", "list", "try", "remove", "ask"}
      /\ Running
  BY NowIs DEF DoSelect, DoList, NothingToDo, DoAsk, TypeInv, Now, Running
<1>2. UNCHANGED <<db, cmd, touched>>
  BY DEF DoSelect, DoList, NothingToDo, DoAsk, others
<1>3. reg'.found = reg.found /\ reg'.patch = reg.patch /\ reg'.listed = reg.listed
  <2>1. \/ reg' = reg
        \/ \E m, n : reg' = [reg EXCEPT !.add = m, !.rm = n]
        \/ \E m : reg' = [reg EXCEPT !.shown = m]
    BY DEF DoSelect, DoList, NothingToDo, DoAsk
  <2> QED
    BY <2>1 DEF TypeInv, RegInv, RegFields
<1>4. Running' => pc' \in Nat /\ Leads(Steps, pc, pc')
  <2>1. CASE DoSelect \/ DoList \/ NothingToDo
    BY <2>1, AnsweredLeads DEF DoSelect, DoList, NothingToDo
  <2>2. CASE DoAsk
    <3>1. Steps[pc].op = "ask" /\ Steps[pc].skip \in Nat
      <4>1. Steps[pc].op = "ask" /\ Steps[pc].skip \in 0 .. Len(Steps) - pc
        BY <2>2, NowIs DEF DoAsk, TypeInv, StepFits
      <4> QED
        BY <4>1, PlaceIsNumber
    <3>2. CASE Proceed
      BY <3>2, AnsweredLeads
    <3>3. CASE Steps[pc].skip # 0 /\ pc' = pc + 1 + Steps[pc].skip
      BY <3>1, <3>3, PlaceIsNumber DEF Leads
    <3>4. CASE Steps[pc].skip = 0 /\ End(Steps[pc].no)
      <4>1. Steps[pc].no # ""
        BY <2>2, <3>1, <3>4, NowIs DEF DoAsk, TypeInv, StepFits
      <4> QED
        BY <3>4, <4>1 DEF End, Running
    <3> QED
      BY <2>2, <3>2, <3>3, <3>4 DEF DoAsk
  <2> QED
    BY <2>1, <2>2
<1>5. PatchAsRead' /\ FoundAsKept' /\ FoundAsNamed'
  BY <1>1, <1>2, <1>3, <1>4, UnreadGoesOn
<1>6. KnownRows' /\ ListedAsRead'
  BY <1>2, <1>3, QuietKeeps
<1> QED
  BY <1>5, <1>6 DEF ReadInv

LEMMA AcceptReads ==
    ASSUME TypeInv, ReadInv, Shape, DoAccept
    PROVE  ReadInv'
<1>1. pc \in DOMAIN Steps /\ Steps[pc].op = "accept" /\ Running
  BY NowIs DEF DoAccept, TypeInv, Now, Running
<1>2. UNCHANGED <<db, cmd, touched>>
  BY DEF DoAccept, others
<1>3. DOMAIN reg = RegFields
  BY DEF TypeInv, RegInv
<1>4. \/ reg' = reg
      \/ \E n : reg' = [reg EXCEPT !.patch = Patched(reg.patch, [milestone |-> n])]
  BY DEF DoAccept
<1>5. reg'.found = reg.found /\ reg'.listed = reg.listed
  BY <1>3, <1>4 DEF RegFields
<1>6. \A f \in DOMAIN reg'.patch :
         f = "milestone" \/ (f \in DOMAIN reg.patch /\ reg'.patch[f] = reg.patch[f])
  <2>1. CASE reg' = reg
    BY <2>1
  <2>2. ASSUME NEW n, reg' = [reg EXCEPT !.patch = Patched(reg.patch, [milestone |-> n])]
        PROVE  \A f \in DOMAIN reg'.patch :
                  f = "milestone" \/ (f \in DOMAIN reg.patch /\ reg'.patch[f] = reg.patch[f])
    <3>1. reg'.patch = Patched(reg.patch, [milestone |-> n])
      BY <1>3, <2>2 DEF RegFields
    <3> QED
      BY <3>1 DEF Patched
  <2> QED
    BY <1>4, <2>1, <2>2
<1>7. FoundNext /\ PatchNext
  BY <1>1, <1>5, <1>6 DEF FoundNext, PatchNext, FindsNamed
<1>8. Running' => pc' \in Nat /\ Leads(Steps, pc, pc')
  BY AnsweredLeads DEF DoAccept
<1>9. PatchAsRead' /\ FoundAsKept' /\ FoundAsNamed'
  BY <1>1, <1>2, <1>7, <1>8, GoingReads
<1>10. KnownRows' /\ ListedAsRead'
  BY <1>2, <1>5, QuietKeeps
<1> QED
  BY <1>9, <1>10 DEF ReadInv

\* The command ends, is at its end, or goes on without what it tried.
LEMMA EndingReads ==
    ASSUME TypeInv, ReadInv, Shape, DoStop \/ Missing \/ UserUnknown \/ Exists \/ Finish \/ Lost
    PROVE  ReadInv'
<1>1. UNCHANGED <<db, cmd, touched, reg>>
  BY DEF DoStop, Missing, UserUnknown, Exists, Refused, Finish, Lost, others
<1>2. KnownRows' /\ ListedAsRead'
  BY <1>1, QuietKeeps
<1>3. CASE ~Running'
  BY <1>2, <1>3 DEF ReadInv, PatchAsRead, FoundAsKept, FoundAsNamed
<1>4. CASE Running'
  <2>1. pc \in DOMAIN Steps /\ Steps[pc].op = "try" /\ Running /\ pc' = pc + 1
    <3>1. CASE DoStop
      <4>1. exit' = Steps[pc].exit /\ Steps[pc].exit \in {"usage", "told", "ok"}
        BY <3>1, NowIs DEF DoStop, Refused, End, TypeInv, StepFits
      <4> QED
        BY <1>4, <4>1 DEF Running
    <3>2. CASE Missing \/ UserUnknown \/ Exists
      <4>1. exit' \in {"missing", "exists", "unknown"}
        BY <3>2 DEF Missing, UserUnknown, Exists, Refused, End
      <4> QED
        BY <1>4, <4>1 DEF Running
    <3>3. CASE Finish
      <4>1. exit' = "ok"
        BY <3>3 DEF Finish, End
      <4> QED
        BY <1>4, <4>1 DEF Running
    <3>4. CASE Lost
      <4>1. exit' = "call" \/ (Now("try") /\ pc' = pc + 1)
        BY <3>4 DEF Lost, End
      <4>2. Now("try") /\ pc' = pc + 1
        BY <1>4, <4>1 DEF Running
      <4> QED
        BY <4>2, NowIs DEF TypeInv, Now, Running
    <3> QED
      BY <3>1, <3>2, <3>3, <3>4
  <2>2. pc' \in Nat /\ Leads(Steps, pc, pc')
    BY <2>1, PlaceIsNumber DEF Leads
  <2>3. PatchAsRead' /\ FoundAsKept' /\ FoundAsNamed'
    BY <1>1, <2>1, <2>2, UnreadGoesOn
  <2> QED
    BY <1>2, <2>3 DEF ReadInv
<1> QED
  BY <1>3, <1>4

\* At the start nothing has been read.
LEMMA StartReads ==
    TypeInv /\ pc = 1 /\ reg = NothingRead
        => PatchAsRead /\ FoundAsKept /\ FoundAsNamed /\ ListedAsRead
<1> SUFFICES ASSUME TypeInv, pc = 1, reg = NothingRead
             PROVE  PatchAsRead /\ FoundAsKept /\ FoundAsNamed /\ ListedAsRead
  OBVIOUS
<1>1. DOMAIN reg.patch = {} /\ reg.listed = {}
  BY DEF NothingRead, NoFields
<1>2. PatchAsRead /\ ListedAsRead
  BY <1>1 DEF PatchAsRead, ListedAsRead
<1>3. FoundAsKept
  BY DEF FoundAsKept, PendingGets, Pending
<1>4. pc - 1 \notin DOMAIN Steps
  BY PlaceIsNumber
<1> QED
  BY <1>2, <1>3, <1>4 DEF FoundAsNamed

LEMMA NextStartReads ==
    (TypeInv /\ pc = 1 /\ reg = NothingRead
        => PatchAsRead /\ FoundAsKept /\ FoundAsNamed /\ ListedAsRead)'
BY StartReads, PTL

LEMMA AgainReads ==
    ASSUME TypeInv, ReadInv, Again
    PROVE  ReadInv'
<1>1. TypeInv'
  BY AgainType
<1>2. pc' = 1 /\ reg' = NothingRead /\ UNCHANGED <<db, cmd, touched>>
  BY DEF Again, others
<1>3. KnownRows'
  BY <1>2, QuietNames
<1> QED
  BY <1>1, <1>2, <1>3, NextStartReads DEF ReadInv

LEMMA OthersKeepNames ==
    ASSUME NobodyRenames(OthersPatch), TypeInv, OtherChanges \/ OtherCreates
    PROVE  NamesStay /\ \A id : IdKnown(id) => IdKnown(id)'
<1>1. CASE OtherChanges
  <2>1. PICK r \in db :
          /\ r.kind \in Concerned
          /\ \/ /\ db' = {s \in db : s # r /\ s.of # r.id}
                /\ touched' = touched \cup (db \ db')
             \/ /\ touched' = touched \cup {r}
                /\ db' = (db \ {r}) \cup {Patched(OthersPatch[r.kind], r)}
    BY <1>1 DEF OtherChanges
  <2>2. CASE /\ db' = {s \in db : s # r /\ s.of # r.id}
             /\ touched' = touched \cup (db \ db')
    BY <2>2 DEF NamesStay, IdKnown
  <2>3. CASE /\ touched' = touched \cup {r}
             /\ db' = (db \ {r}) \cup {Patched(OthersPatch[r.kind], r)}
    <3>1. PICK new : new = Patched(OthersPatch[r.kind], r)
      OBVIOUS
    <3>2. IsRow(r)
      BY DEF TypeInv, RowInv, Distinct
    <3>3. r.kind \in DOMAIN OthersPatch
      BY <2>1, CommandFits DEF Concerned, StepFits, TypeInv
    <3>4. new.id = r.id
      BY <2>1, <3>1, <3>2, OthersKeep DEF TypeInv
    <3>5. new.name = r.name
      BY <3>1, <3>2, <3>3 DEF NobodyRenames, Patched, IsRow, RowKeys
    <3>6. db' = (db \ {r}) \cup {new}
      BY <2>3, <3>1
    <3> QED
      BY <2>3, <3>4, <3>5, <3>6 DEF NamesStay, IdKnown
  <2> QED
    BY <2>1, <2>2, <2>3
<1>2. CASE OtherCreates
  <2>1. PICK new : new.id = FreshId /\ db' = db \cup {new} /\ touched' = touched \cup {new}
    BY <1>2, NewOfOthers
  <2> QED
    BY <2>1 DEF NamesStay, IdKnown
<1> QED
  BY <1>1, <1>2

LEMMA OthersRead ==
    ASSUME NobodyRenames(OthersPatch), TypeInv, ReadInv, OtherChanges \/ OtherCreates
    PROVE  ReadInv'
<1>1. UNCHANGED <<cmd, pc, reg, exit>>
  BY DEF OtherChanges, OtherCreates
<1>2. \A x : SameName(x) => SameName(x)'
  BY OthersKeepNames, SameNameStays
<1>3. PatchAsRead' /\ FoundAsKept' /\ FoundAsNamed'
  BY <1>1, <1>2, StayingReads DEF Running
<1>4. ListedAsRead'
  BY <1>1, <1>2, ListedKept
<1>5. KnownRows'
  <2>1. Steps' = Steps
    BY <1>1 DEF Steps
  <2>2. \A r \in db' : \/ r \in touched'
                       \/ \E q \in db : q.id = r.id
    <3>1. CASE OtherChanges
      <4>1. PICK r \in db :
               /\ r.kind \in Concerned
               /\ \/ db' \subseteq db
                  \/ db' = (db \ {r}) \cup {Patched(OthersPatch[r.kind], r)}
        BY <3>1 DEF OtherChanges
      <4>2. PICK new : new = Patched(OthersPatch[r.kind], r)
        OBVIOUS
      <4>3. IsRow(r)
        BY DEF TypeInv, RowInv, Distinct
      <4>4. new.id = r.id
        BY <4>1, <4>2, <4>3, OthersKeep DEF TypeInv
      <4> QED
        BY <4>1, <4>2, <4>4
    <3>2. CASE OtherCreates
      BY <3>2, NewOfOthers
    <3> QED
      BY <3>1, <3>2
  <2>3. touched \subseteq touched'
    BY DEF OtherChanges, OtherCreates
  <2> QED
    BY <2>1, <2>2, <2>3 DEF ReadInv, KnownRows
<1> QED
  BY <1>3, <1>4, <1>5 DEF ReadInv

LEMMA ShapeHolds ==
    ASSUME AllWriteAsAsked(Commands), StepInv
    PROVE  Shape
BY DEF StepInv, Shape, Steps, Asked, AllWriteAsAsked

LEMMA ReadInvariance ==
    ASSUME AllWriteAsAsked(Commands), NobodyRenames(OthersPatch)
    PROVE  Spec => []ReadInv
<1>1. Init => ReadInv
  <2> SUFFICES ASSUME Init PROVE ReadInv
    OBVIOUS
  <2>1. TypeInv
    BY InitType
  <2>2. PatchAsRead /\ FoundAsKept /\ FoundAsNamed /\ ListedAsRead
    BY <2>1, StartReads DEF Init
  <2>3. KnownRows
    BY DEF Init, KnownRows
  <2> QED
    BY <2>2, <2>3 DEF ReadInv
<1>2. TypeInv /\ ReadInv /\ [Next]_vars => ReadInv'
  <2> SUFFICES ASSUME TypeInv, ReadInv, [Next]_vars PROVE ReadInv'
    OBVIOUS
  <2>1. Shape
    BY ShapeHolds DEF TypeInv
  <2>2. CASE UNCHANGED vars
    <3>1. UNCHANGED <<db, cmd, pc, reg, exit, touched>>
      BY <2>2 DEF vars
    <3>2. Running' = Running
      BY <3>1 DEF Running
    <3>3. KnownRows' /\ ListedAsRead' /\ \A x : SameName(x) => SameName(x)'
      BY <3>1, QuietKeeps
    <3>4. PatchAsRead' /\ FoundAsKept' /\ FoundAsNamed'
      BY <3>1, <3>2, <3>3, StayingReads
    <3> QED
      BY <3>3, <3>4 DEF ReadInv
  <2> QED
    BY <2>1, <2>2, GetReads, SearchReads, CollectReads, EditReads, CreateReads, OtherWritesRead,
       RemoveReads, FormReads, AcceptReads, EndingReads, AgainReads, OthersRead
       DEF Next, Step
<1> QED
  BY <1>1, <1>2, TypeInvariance, PTL DEF Spec

\* A command removes no row but those named, makes none but those named, and
\* leaves every field it was not asked to set as it is, or as it has read it,
\* if each of its steps that write answers to a wish, and nobody renames
\* what it has found meanwhile.
THEOREM OnlyAskedIsDone ==
    ASSUME AllWriteAsAsked(Commands), NobodyRenames(OthersPatch)
    PROVE  Spec => OnlyAsked
<1>1. TypeInv /\ ReadInv /\ [Next]_vars
        => [~(OtherChanges \/ OtherCreates) => OldRowsAsked /\ NewRowsAsked]_vars
  <2> SUFFICES ASSUME TypeInv, ReadInv, Next, ~(OtherChanges \/ OtherCreates)
               PROVE  OldRowsAsked /\ NewRowsAsked
    OBVIOUS
  <2>1. Shape
    BY ShapeHolds DEF TypeInv
  <2>2. CASE DoEdit \/ DoCreate \/ DoDelete \/ DoChange \/ DoRemove \/ DoRequest
    BY <2>1, <2>2, WritingAsAsked DEF AsAsked
  <2>3. CASE ~(DoEdit \/ DoCreate \/ DoDelete \/ DoChange \/ DoRemove \/ DoRequest)
    <3>1. db' = db
      BY <2>3 DEF Next, Step, DoGet, DoSearch, DoCollect, NothingToDo, DoSelect, DoAccept, DoList,
         DoAsk, DoStop, Missing, UserUnknown, Exists, Refused, Finish, Lost, Again
    <3> QED
      BY <3>1, NothingWritten
  <2> QED
    BY <2>2, <2>3
<1> QED
  BY <1>1, TypeInvariance, ReadInvariance, PTL DEF Spec, OnlyAsked, OldRowsAsked, NewRowsAsked
=============================================================================
