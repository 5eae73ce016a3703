----------------------------- MODULE PanelProofs -----------------------------
(***************************************************************************)
(* Proofs about Panel for every set of automations, runs and handlers,     *)
(* every size of the page and every combination of failures.               *)
(***************************************************************************)
EXTENDS Panel, RegistryProofs, FiniteSetTheorems

(* Numbers: the oldest run, the place of a row, the pages. *)

\* A set of naturals that is not empty has a least element.
LEMMA LeastIs ==
  ASSUME NEW S \in SUBSET Nat, S # {}
  PROVE  Min(S) \in S
<1> DEFINE R == {p \in Nat \X Nat : p[1] < p[2]}
<1>1. IsWellFoundedOn(R, Nat)
  BY NatLessThanWellFounded DEF OpToRel
<1>2. PICK x \in S : \A y \in S : ~ (<<y, x>> \in R)
  <2> HIDE DEF R
  <2> QED BY <1>1, WFMin
<1>3. ASSUME NEW y \in S PROVE x <= y
  <2>1. x \in Nat /\ y \in Nat /\ <<y, x>> \in Nat \X Nat
    OBVIOUS
  <2>2. <<y, x>> \notin R
    BY <1>2
  <2>3. ~(y < x)
    BY <2>1, <2>2
  <2> QED BY <2>1, <2>3
<1> HIDE DEF R
<1> QED BY <1>2, <1>3 DEF Min

\* The members of S that a page shows before x: those above it.
Above(S, x) == {y \in S : y > x}

\* Of the members of a finite set of naturals there is one that has exactly
\* k above it, for every k less than their number: counting them is injective.
LEMMA RankIs ==
  ASSUME NEW S \in SUBSET Nat, IsFiniteSet(S), NEW k \in Nat, k < Cardinality(S)
  PROVE  \E x \in S : Cardinality(Above(S, x)) = k
<1> DEFINE n == Cardinality(S)
           K == 0..(n - 1)
           rank == [x \in S |-> Cardinality(Above(S, x))]
<1>1. n \in Nat
  BY FS_CardinalityType
<1>2. ASSUME NEW x \in S
      PROVE  /\ IsFiniteSet(Above(S, x)) /\ Cardinality(Above(S, x)) \in Nat
             /\ Cardinality(Above(S, x)) < n
  <2>1. Above(S, x) \in SUBSET S /\ x \notin Above(S, x)
    BY DEF Above
  <2>2. IsFiniteSet(Above(S, x)) /\ Cardinality(Above(S, x)) <= n /\ Cardinality(Above(S, x)) # n
    BY <2>1, FS_Subset
  <2>3. Cardinality(Above(S, x)) \in Nat
    BY <2>2, FS_CardinalityType
  <2> QED BY <1>1, <2>2, <2>3
<1>3. rank \in [S -> K]
  BY <1>1, <1>2
<1>4. ASSUME NEW x \in S, NEW y \in S, x < y PROVE rank[x] # rank[y]
  <2>1. Above(S, y) \in SUBSET Above(S, x) /\ y \in Above(S, x) /\ y \notin Above(S, y)
    <3>1. x \in Nat /\ y \in Nat /\ \A z \in S : z \in Nat
      OBVIOUS
    <3>2. y > x /\ ~(y > y) /\ \A z \in S : z > y => z > x
      BY <1>4, <3>1
    <3>3. \A z \in Above(S, y) : z \in Above(S, x)
      BY <3>2 DEF Above
    <3>4. y \in Above(S, x) /\ y \notin Above(S, y)
      BY <3>2 DEF Above
    <3> QED BY <3>3, <3>4
  <2>2. Cardinality(Above(S, x)) # Cardinality(Above(S, y))
    BY <1>2, <2>1, FS_Subset
  <2> QED BY <2>2
<1> HIDE DEF rank
<1>5. rank \in Injection(S, K)
  <2>1. \A x, y \in S : rank[x] = rank[y] => x = y
    <3> SUFFICES ASSUME NEW x \in S, NEW y \in S, rank[x] = rank[y], x # y PROVE FALSE
      OBVIOUS
    <3>1. x \in Nat /\ y \in Nat
      OBVIOUS
    <3>2. x < y \/ y < x
      BY <3>1
    <3> QED BY <1>4, <3>2
  <2> QED BY <1>3, <2>1 DEF Injection, IsInjective
<1>6. IsFiniteSet(K) /\ Cardinality(K) = n
  <2> HIDE DEF n
  <2>1. 0 \in Int /\ n - 1 \in Int
    BY <1>1
  <2>2. IsFiniteSet(K) /\ Cardinality(K) = IF 0 > n - 1 THEN 0 ELSE n - 1 - 0 + 1
    BY <2>1, FS_Interval
  <2> QED BY <1>1, <2>2
<1>7. rank \in Surjection(S, K)
  BY <1>5, <1>6, FS_Injection
<1>8. k \in K
  BY <1>1
<1>9. PICK x \in S : rank[x] = k
  BY <1>7, <1>8 DEF Surjection
<1> QED BY <1>9 DEF rank

\* There is a page, and what comes before it has not used up the rows.
LEMMA PagesAre ==
  ASSUME NEW n \in Nat
  PROVE  /\ MaxPage(n) \in Nat \ {0}
         /\ \A p \in Nat \ {0} : p <= MaxPage(n) /\ n # 0 =>
              PageSize * (p - 1) \in Nat /\ PageSize * (p - 1) < n
<1>1. PageSize \in Nat \ {0}
  BY PanelAssumption
<1>2. CASE n = 0
  BY <1>2 DEF MaxPage
<1>3. CASE n # 0
  <2> DEFINE q == (n + PageSize - 1) \div PageSize
  <2>1. MaxPage(n) = q
    BY <1>3 DEF MaxPage
  <2>2. q \in Int /\ PageSize * q <= n + PageSize - 1 /\ n + PageSize - 1 < PageSize * q + PageSize
    BY <1>1, Z3
  <2> HIDE DEF q
  <2>3. q \in Nat \ {0}
    BY <1>1, <1>3, <2>2, Z3
  <2>4. ASSUME NEW p \in Nat \ {0}, p <= q
        PROVE  PageSize * (p - 1) \in Nat /\ PageSize * (p - 1) < n
    <3>1. PageSize * p <= PageSize * q /\ PageSize * (p - 1) = PageSize * p - PageSize
      BY <1>1, <2>3, <2>4, Z3
    <3>2. PageSize * (p - 1) \in Nat
      BY <1>1, <2>4, Z3
    <3> QED BY <1>1, <2>2, <2>3, <2>4, <3>1, <3>2, Z3
  <2> QED BY <2>1, <2>3, <2>4
<1> QED BY <1>2, <1>3

\* A page that exists is empty only when there is nothing to show.
LEMMA SliceIs ==
  ASSUME NEW S \in SUBSET Nat, IsFiniteSet(S), NEW p \in Nat \ {0}, p <= MaxPage(Cardinality(S))
  PROVE  Slice(S, p) \in SUBSET S /\ (Slice(S, p) = {} <=> Cardinality(S) = 0)
<1>1. Cardinality(S) \in Nat /\ (Cardinality(S) = 0 <=> S = {})
  BY FS_CardinalityType, FS_EmptySet
<1>2. Slice(S, p) \in SUBSET S
  BY DEF Slice
<1>3. ASSUME Cardinality(S) # 0 PROVE Slice(S, p) # {}
  <2> DEFINE k == PageSize * (p - 1)
  <2>1. k \in Nat /\ k < Cardinality(S)
    BY <1>1, <1>3, PagesAre
  <2>2. k \in k..(PageSize * p - 1)
    <3>1. PageSize \in Nat \ {0}
      BY PanelAssumption
    <3>2. PageSize * p = k + PageSize
      BY <3>1, Z3
    <3> HIDE DEF k
    <3> QED BY <2>1, <3>1, <3>2
  <2>3. PICK x \in S : Cardinality(Above(S, x)) = k
    <3> HIDE DEF k
    <3> QED BY <2>1, RankIs
  <2>4. x \in Slice(S, p)
    BY <2>2, <2>3 DEF Slice, Above
  <2> QED BY <2>4
<1> QED BY <1>1, <1>2, <1>3
-----------------------------------------------------------------------------
(* The invariant. *)

\* The runs of the database are among those created so far.
DbInv ==
  /\ db \in Contents /\ used \in SUBSET Runs /\ IsFiniteSet(used) /\ Rows(db) \subseteq used

Views == [db : Contents, total : Nat, rows : SUBSET Runs, stale : BOOLEAN]
Todos == [read : SUBSET Contents, start : SUBSET Runs, poll : SUBSET Jobs]

\* The total shown while the rows are read again is the one that was counted.
TodoInv ==
  /\ todo \in Todos /\ todo.start \subseteq used
  /\ \A d \in todo.read :
       Rows(d) \subseteq used /\ view.total = Cardinality(Filtered(d, run_state_filter))

PageInv ==
  /\ view \in Views /\ history_page \in Nat \ {0}
  /\ run_state_filter \in {All, "queued", "final"}
  /\ PageInRange /\ TodoInv

\* Neither the database nor the page nor the form has a limit that was removed.
FormInv ==
  /\ dialog.of \subseteq Runs \cup Robots
  /\ form \in [editing : Robots \cup {NoRobot}, limit : BOOLEAN]
  /\ lifted \subseteq Robots
  /\ \A b \in lifted :
       b \notin db.limited /\ b \notin view.db.limited /\ (form.editing = b => ~form.limit)

JobType == [kind : {"none", "queue", "direct"}, run : SUBSET Runs,
            at : {"idle", "start", "claim", "run", "ended"}, watched : BOOLEAN]

WorkInv ==
  /\ disabled \in BOOLEAN /\ lock \subseteq Jobs /\ jobs \in [Jobs -> JobType]
  /\ \A j \in Jobs : jobs[j].run \subseteq used
  /\ JobInv

FullInv == menu \in Menus /\ DbInv /\ PageInv /\ FormInv /\ WorkInv

LEMMA FullIsIInv == FullInv => IInv
BY DEF FullInv, DbInv, PageInv, TodoInv, Todos, FormInv, WorkInv, IInv, TypeOK, Views, JobType

\* A transaction that brings no run but one that counts as used keeps DbInv.
LEMMA DbStep ==
  ASSUME DbInv, db' \in Contents, used' \in SUBSET Runs, used \subseteq used', IsFiniteSet(used'),
         \A x \in Runs : db'.state[x] # "absent" => db.state[x] # "absent" \/ x \in used'
  PROVE  DbInv'
BY DEF DbInv, Rows

LEMMA DbSame == ASSUME DbInv, UNCHANGED <<db, used>> PROVE DbInv'
BY DEF DbInv, Rows

\* The rows that a filter keeps.
LEMMA FilteredIs ==
  ASSUME NEW d, NEW f, NEW S, IsFiniteSet(S), Rows(d) \subseteq S
  PROVE  /\ Filtered(d, f) \in SUBSET Runs /\ Filtered(d, f) \in SUBSET Nat
         /\ IsFiniteSet(Filtered(d, f)) /\ Cardinality(Filtered(d, f)) \in Nat
<1>1. Filtered(d, f) \in SUBSET S /\ Filtered(d, f) \in SUBSET Runs
  BY DEF Filtered, Rows
<1>2. IsFiniteSet(Filtered(d, f))
  BY <1>1, FS_Subset
<1> QED BY <1>1, <1>2, FS_CardinalityType, PanelAssumption

\* Nothing is left to do.
LEMMA DoneIs == Done \in Todos /\ Done.read = {} /\ Done.start = {} /\ Done.poll = {}
BY DEF Done, Todos

LEMMA DoneInv == ASSUME todo' = Done PROVE TodoInv'
BY DoneIs DEF TodoInv

\* refresh() up to its second list_runs(): the page shown exists.
LEMMA DrawnIs ==
  ASSUME view \in Views, NEW d \in Contents, NEW f, NEW S, IsFiniteSet(S), Rows(d) \subseteq S,
         NEW p \in Nat \ {0}, NEW rest, Drawn(d, f, p, rest)
  PROVE  /\ view' \in Views /\ history_page' \in Nat \ {0} /\ PageInRange'
         /\ view'.db \in {view.db, d}
         /\ \/ todo' = Done
            \/ /\ todo' = [rest EXCEPT !.read = {d}]
               /\ view'.total = Cardinality(Filtered(d, f))
<1> DEFINE T == Filtered(d, f)
           n == Cardinality(T)
           c == Clamped(p, n)
<1>1. T \in SUBSET Runs /\ T \in SUBSET Nat /\ IsFiniteSet(T) /\ n \in Nat
  BY FilteredIs
<1>2. /\ history_page' = c
      /\ \/ p = c /\ view' = View(d, f, p) /\ todo' = Done
         \/ /\ view' = [view EXCEPT !.total = n, !.stale = TRUE]
            /\ todo' = [rest EXCEPT !.read = {d}]
  BY DEF Drawn
<1>3. c \in Nat \ {0} /\ c <= MaxPage(n)
  <2> HIDE DEF n
  <2>1. MaxPage(n) \in Nat \ {0}
    BY <1>1, PagesAre
  <2> QED BY <2>1 DEF Clamped
<1> HIDE DEF c
<1>4. CASE view' = View(d, f, p) /\ p = c /\ todo' = Done
  <2>1. view' = [db |-> d, total |-> n, rows |-> Slice(T, c), stale |-> FALSE]
    BY <1>4 DEF View
  <2> HIDE DEF T
  <2>2. Slice(T, c) \in SUBSET T /\ (Slice(T, c) = {} <=> n = 0)
    BY <1>1, <1>3, SliceIs
  <2> HIDE DEF n
  <2>3. view' \in Views
    BY <1>1, <2>1, <2>2 DEF Views
  <2>4. history_page' <= MaxPage(view'.total)
    BY <1>2, <1>3, <2>1
  <2>5. view'.rows = {} <=> view'.total = 0
    BY <2>1, <2>2
  <2> QED BY <1>2, <1>3, <1>4, <2>1, <2>3, <2>4, <2>5 DEF PageInRange, MaxPage
<1>5. CASE view' = [view EXCEPT !.total = n, !.stale = TRUE] /\ todo' = [rest EXCEPT !.read = {d}]
  <2> HIDE DEF n
  <2>1. view' \in Views /\ view'.total = n /\ view'.stale /\ view'.db = view.db
    BY <1>1, <1>5 DEF Views
  <2> QED BY <1>2, <1>3, <1>5, <2>1 DEF PageInRange, MaxPage, n
<1> QED BY <1>2, <1>4, <1>5

\* A refresh() that raises leaves a page that exists.
LEMMA RefreshFailsIs ==
  ASSUME PageInv, NEW d \in Contents, NEW f, NEW S, IsFiniteSet(S), Rows(d) \subseteq S,
         NEW p \in Nat \ {0}, p <= MaxPage(view.total), RefreshFails(d, f, p)
  PROVE  /\ view' \in Views /\ history_page' \in Nat \ {0} /\ PageInRange'
         /\ view'.db = view.db /\ todo' = Done
<1> DEFINE n == Cardinality(Filtered(d, f))
           c == Clamped(p, n)
<1>1. n \in Nat
  BY FilteredIs
<1>2. CASE view' = view /\ history_page' = p
  <2>1. history_page' <= MaxPage(view.total)
    BY <1>2
  <2>2. PageInRange'
    BY <1>2, <2>1 DEF PageInv, PageInRange, MaxPage
  <2> QED BY <1>2, <2>2 DEF PageInv, RefreshFails
<1>3. CASE view' = [view EXCEPT !.total = n, !.stale = TRUE] /\ history_page' = c
  <2> HIDE DEF n
  <2>1. MaxPage(n) \in Nat \ {0}
    BY <1>1, PagesAre
  <2>2. c \in Nat \ {0} /\ c <= MaxPage(n)
    BY <2>1 DEF Clamped
  <2> HIDE DEF c
  <2>3. view' \in Views /\ view'.total = n /\ view'.stale /\ view'.db = view.db
    BY <1>1, <1>3 DEF PageInv, Views
  <2>4. todo' = Done
    BY DEF RefreshFails
  <2> QED BY <1>3, <2>2, <2>3, <2>4 DEF PageInRange, MaxPage
<1> QED BY <1>2, <1>3 DEF RefreshFails

LEMMA PageSame == ASSUME PageInv, UNCHANGED page, used \subseteq used' PROVE PageInv'
<1>1. TodoInv'
  BY DEF PageInv, TodoInv, page
<1> QED BY <1>1 DEF PageInv, PageInRange, MaxPage, page

LEMMA WorkSame == ASSUME WorkInv, UNCHANGED work, used \subseteq used' PROVE WorkInv'
BY DEF WorkInv, JobInv, JobType, work

\* The form stays, no limit comes back, and the page shows what it showed or
\* what is in the database.
LEMMA FormKept ==
  ASSUME FormInv, UNCHANGED <<form, lifted>>, dialog'.of \subseteq Runs \cup Robots,
         \A b \in lifted : b \in db'.limited => b \in db.limited,
         view'.db \in {view.db, db'}
  PROVE  FormInv'
BY DEF FormInv

LEMMA FormSame == ASSUME FormInv, UNCHANGED <<form, dialog, lifted, db, page>> PROVE FormInv'
BY DEF FormInv, page

\* A page that is drawn from the database as it is left.
LEMMA DrawStep ==
  ASSUME PageInv, DbInv', NEW p \in Nat \ {0}, NEW f \in {All, "queued", "final"},
         NEW rest \in Todos, rest.start \subseteq used', Drawn(db', f, p, rest),
         run_state_filter' = f
  PROVE  PageInv' /\ view'.db \in {view.db, db'}
<1>1. db' \in Contents /\ IsFiniteSet(used') /\ Rows(db') \subseteq used' /\ view \in Views
  BY DEF DbInv, Rows, PageInv
<1>2. /\ view' \in Views /\ history_page' \in Nat \ {0} /\ PageInRange'
      /\ view'.db \in {view.db, db'}
      /\ \/ todo' = Done
         \/ /\ todo' = [rest EXCEPT !.read = {db'}]
            /\ view'.total = Cardinality(Filtered(db', f))
  BY <1>1, DrawnIs
<1>3. TodoInv'
  <2>1. CASE todo' = Done
    BY <2>1, DoneInv
  <2>2. CASE todo' = [rest EXCEPT !.read = {db'}] /\ view'.total = Cardinality(Filtered(db', f))
    <3>1. todo' \in Todos /\ todo'.start = rest.start /\ todo'.read = {db'}
      BY <1>1, <2>2 DEF Todos
    <3>2. \A d \in todo'.read :
            Rows(d) \subseteq used' /\ view'.total = Cardinality(Filtered(d, run_state_filter'))
      BY <1>1, <2>2, <3>1
    <3> QED BY <3>1, <3>2 DEF TodoInv, Filtered, Rows
  <2> QED BY <1>2, <2>1, <2>2
<1> QED BY <1>2, <1>3 DEF PageInv

LEMMA PageStep ==
  ASSUME PageInv, DbInv', NEW p \in Nat \ {0}, p <= MaxPage(view.total),
         NEW f \in {All, "queued", "final"}, Refresh(db', f, p), run_state_filter' = f
  PROVE  PageInv' /\ view'.db \in {view.db, db'}
<1>1. CASE Drawn(db', f, p, Done)
  <2>1. Done \in Todos /\ Done.start \subseteq used'
    BY DoneIs
  <2> QED BY <1>1, <2>1, DrawStep
<1>2. CASE RefreshFails(db', f, p)
  <2>1. db' \in Contents /\ IsFiniteSet(used') /\ Rows(db') \subseteq used'
    BY DEF DbInv, Rows
  <2>2. /\ view' \in Views /\ history_page' \in Nat \ {0} /\ PageInRange'
        /\ view'.db = view.db /\ todo' = Done
    BY <1>2, <2>1, RefreshFailsIs
  <2>3. TodoInv'
    BY <2>2, DoneInv
  <2> QED BY <2>2, <2>3 DEF PageInv
<1> QED BY <1>1, <1>2 DEF Refresh

LEMMA CommitIs ==
  ASSUME PageInv, DbInv', NEW d, Commit(d)
  PROVE  PageInv' /\ view'.db \in {view.db, db'}
<1>1. /\ db' = d /\ Refresh(db', run_state_filter, history_page)
      /\ run_state_filter' = run_state_filter
      /\ history_page \in Nat \ {0} /\ history_page <= MaxPage(view.total)
      /\ run_state_filter \in {All, "queued", "final"}
  BY DEF Commit, PageInv, PageInRange
<1> QED BY <1>1, PageStep

\* A handler that commits, or that leaves the database and the page alone.
LEMMA CommitForm ==
  ASSUME FullInv, DbInv', (\E d : Commit(d)) \/ UNCHANGED <<db, page>>, UNCHANGED <<form, lifted>>,
         dialog'.of \subseteq Runs \cup Robots,
         \A b \in lifted : b \in db'.limited => b \in db.limited
  PROVE  FormInv'
<1>1. view'.db \in {view.db, db'}
  BY CommitIs DEF FullInv, page
<1> QED BY <1>1, FormKept DEF FullInv

LEMMA InitInv == Init => FullInv
<1> SUFFICES ASSUME Init PROVE FullInv
  OBVIOUS
<1>1. DbInv
  <2>1. PICK B \in SUBSET Robots :
          db = [Blank EXCEPT !.revision = HeadRev,
                             !.robot = [b \in Robots |-> IF b \in B THEN "active" ELSE "absent"]]
    BY DEF Init
  <2> DEFINE R == [b \in Robots |-> IF b \in B THEN "active" ELSE "absent"]
  <2>2. R \in [Robots -> RobotStates]
    BY DEF RobotStates
  <2>3. HeadRev \in 0..HeadRev
    <3>1. HeadRev \in Nat
      BY RegistryAssumption
    <3> QED BY <3>1
  <2>4. db = [Blank EXCEPT !.revision = HeadRev, !.robot = R]
    BY <2>1
  <2> HIDE DEF R
  <2>5. db \in Contents /\ db.state = Blank.state
    <3>1. Blank \in Contents
      BY BlankIs
    <3>2. db.revision = HeadRev /\ db.robot = R /\ db.state = Blank.state
      BY <2>4, <3>1 DEF Contents
    <3>3. db \in Contents
      BY <2>2, <2>3, <2>4, <3>1 DEF Contents
    <3> QED BY <3>2, <3>3
  <2>6. Rows(db) = {}
    BY <2>5, BlankIs DEF Rows
  <2> QED BY <2>5, <2>6, FS_EmptySet DEF Init, DbInv
<1>2. PageInv
  <2>1. view = View(db, All, 1) /\ history_page = 1 /\ run_state_filter = All
    BY DEF Init
  <2> DEFINE T == Filtered(db, All)
             n == Cardinality(T)
  <2>2. T \in SUBSET Runs /\ T \in SUBSET Nat /\ IsFiniteSet(T) /\ n \in Nat
    BY <1>1, FilteredIs DEF DbInv
  <2>3. view = [db |-> db, total |-> n, rows |-> Slice(T, 1), stale |-> FALSE]
    BY <2>1 DEF View
  <2> HIDE DEF T
  <2>4. 1 \in Nat \ {0} /\ 1 <= MaxPage(n)
    BY <2>2, PagesAre
  <2>5. Slice(T, 1) \in SUBSET T /\ (Slice(T, 1) = {} <=> n = 0)
    BY <2>2, <2>4, SliceIs
  <2> HIDE DEF n
  <2>6. view \in Views
    BY <1>1, <2>2, <2>3, <2>5 DEF Views, DbInv
  <2>7. PageInRange
    BY <2>1, <2>3, <2>4, <2>5 DEF PageInRange
  <2>8. TodoInv
    BY DoneIs DEF Init, TodoInv
  <2> QED BY <2>1, <2>4, <2>6, <2>7, <2>8 DEF PageInv
<1>3. FormInv
  BY DEF Init, FormInv, NoForm, NoDialog
<1>4. WorkInv
  <2>1. Idle \in JobType /\ Idle.run = {} /\ Idle.at = "idle" /\ ~Idle.watched
    BY DEF Idle, JobType
  <2> QED BY <2>1 DEF Init, WorkInv, JobInv
<1> QED BY <1>1, <1>2, <1>3, <1>4 DEF Init, FullInv
-----------------------------------------------------------------------------
(* The history: its pages and its removals. *)

LEMMA TurnInv ==
  ASSUME FullInv, NEW p \in Nat \ {0}, p <= MaxPage(view.total), TurnTo(p)
  PROVE  FullInv'
<1>1. DbInv /\ PageInv /\ FormInv /\ WorkInv /\ menu' = menu
  BY DEF FullInv, TurnTo
<1>2. DbInv'
  BY <1>1, DbSame DEF TurnTo
<1>3. PageInv' /\ view'.db \in {view.db, db'}
  BY <1>1, <1>2, PageStep DEF TurnTo, PageInv
<1>4. FormInv' /\ WorkInv'
  BY <1>1, <1>3, FormKept, WorkSame DEF TurnTo, FormInv
<1> QED BY <1>1, <1>2, <1>3, <1>4 DEF FullInv

LEMMA FilterInv ==
  ASSUME FullInv, NEW f \in {All, "queued", "final"}, SetFilter(f)
  PROVE  FullInv'
<1>1. DbInv /\ PageInv /\ FormInv /\ WorkInv /\ menu' = menu
  BY DEF FullInv, SetFilter
<1>2. DbInv'
  BY <1>1, DbSame DEF SetFilter
<1>3. view.total \in Nat
  BY <1>1 DEF PageInv, Views
<1>4. 1 \in Nat \ {0} /\ 1 <= MaxPage(view.total)
  BY <1>3, PagesAre
<1>5. PageInv' /\ view'.db \in {view.db, db'}
  BY <1>1, <1>2, <1>4, PageStep DEF SetFilter
<1>6. FormInv' /\ WorkInv'
  BY <1>1, <1>5, FormKept, WorkSame DEF SetFilter, FormInv
<1> QED BY <1>1, <1>2, <1>5, <1>6 DEF FullInv

LEMMA PagesInv ==
  ASSUME FullInv, PrevPage \/ NextPage \/ RefreshClick
  PROVE  FullInv'
<1>1. /\ history_page \in Nat \ {0} /\ history_page <= MaxPage(view.total)
      /\ MaxPage(view.total) \in Nat \ {0}
  BY PagesAre DEF FullInv, PageInv, PageInRange, Views
<1>2. CASE PrevPage
  <2>1. history_page - 1 \in Nat \ {0} /\ history_page - 1 <= MaxPage(view.total)
    BY <1>1, <1>2 DEF PrevPage
  <2> QED BY <1>2, <2>1, TurnInv DEF PrevPage
<1>3. CASE NextPage
  <2>1. history_page + 1 \in Nat \ {0} /\ history_page + 1 <= MaxPage(view.total)
    BY <1>1, <1>3 DEF NextPage
  <2> QED BY <1>3, <2>1, TurnInv DEF NextPage
<1>4. CASE RefreshClick
  BY <1>1, <1>4, TurnInv DEF RefreshClick
<1> QED BY <1>2, <1>3, <1>4

\* A dialog is opened or dismissed.
LEMMA DialogInv ==
  ASSUME FullInv, UNCHANGED <<menu, db, used, page, form, work, lifted>>,
         dialog'.of \subseteq Runs \cup Robots
  PROVE  FullInv'
<1>1. DbInv' /\ PageInv' /\ WorkInv'
  BY DbSame, PageSame, WorkSame DEF FullInv
<1>2. FormInv'
  BY FormKept DEF FullInv, page
<1> QED BY <1>1, <1>2 DEF FullInv

LEMMA AskInv ==
  ASSUME FullInv,
         \/ AskAll \/ AskLimits \/ AskImport \/ Dismiss
         \/ \E x \in Runs : AskRemoveRun(x)
         \/ \E b \in Robots : AskRemoveRobot(b)
  PROVE  FullInv'
<1>1. ASSUME NEW part, NEW q, NEW S, S \subseteq Runs \cup Robots, Ask(part, q, S) PROVE FullInv'
  BY <1>1, DialogInv DEF Ask
<1>2. CASE AskAll
  BY <1>1, <1>2 DEF AskAll
<1>3. CASE AskLimits
  BY <1>1, <1>3 DEF AskLimits
<1>4. CASE AskImport
  BY <1>1, <1>4 DEF AskImport
<1>5. CASE Dismiss
  BY <1>5, DialogInv DEF Dismiss, NoDialog
<1>6. ASSUME NEW x \in Runs, AskRemoveRun(x) PROVE FullInv'
  BY <1>1, <1>6 DEF AskRemoveRun
<1>7. ASSUME NEW b \in Robots, AskRemoveRobot(b) PROVE FullInv'
  BY <1>1, <1>7 DEF AskRemoveRobot
<1> QED BY <1>2, <1>3, <1>4, <1>5, <1>6, <1>7

\* What a confirmed removal leaves has no row that was not there.
LEMMA RemovalIs ==
  ASSUME DbInv, dialog.ask \in {"run", "robot", "history", "robots", "old"}, NEW d \in Removal
  PROVE  /\ d \in Contents
         /\ \A x \in Runs : d.state[x] # "absent" => db.state[x] # "absent"
         /\ d.limited \subseteq db.limited
<1>1. db \in Contents /\ Rows(db) \in SUBSET Runs
  BY DEF DbInv, Rows
<1>2. \E S \in SUBSET Runs, B \in SUBSET Robots : d = Without(db, S, B)
  <2>1. CASE dialog.ask = "run"
    <3>1. PICK x \in dialog.of \cap Runs : d = Without(db, {x}, {})
      BY <2>1 DEF Removal, RunRemovals
    <3> QED BY <3>1
  <2>2. CASE dialog.ask = "robot"
    <3>1. PICK b \in dialog.of \cap Robots : d = Without(db, {x \in Rows(db) : RobotOf[x] = b}, {b})
      BY <2>2 DEF Removal, RobotRemovals
    <3> QED BY <1>1, <3>1
  <2>3. CASE dialog.ask = "history"
    BY <1>1, <2>3 DEF Removal, HistoryCleared
  <2>4. CASE dialog.ask = "robots"
    BY <1>1, <2>4 DEF Removal, RobotsCleared
  <2>5. CASE dialog.ask = "old"
    BY <1>1, <2>5 DEF Removal, OldRemoved
  <2> QED BY <2>1, <2>2, <2>3, <2>4, <2>5
<1>3. PICK S \in SUBSET Runs, B \in SUBSET Robots : d = Without(db, S, B)
  BY <1>2
<1>4. Without(db, S, B) \in Contents
  BY <1>1, WithoutIs
<1>5. \A x \in Runs : Without(db, S, B).state[x] = IF x \in S THEN "absent" ELSE db.state[x]
  BY <1>1, WithoutIs
<1>6. Without(db, S, B).limited = db.limited \ B
  BY <1>1 DEF Without, Contents
<1> QED BY <1>3, <1>4, <1>5, <1>6

LEMMA ConfirmInv ==
  ASSUME FullInv, Confirm
  PROVE  FullInv'
<1>1. DbInv /\ PageInv /\ FormInv /\ WorkInv /\ menu \in Menus
  BY DEF FullInv
<1>2. /\ dialog.ask \in {"run", "robot", "history", "robots", "old"} /\ dialog' = NoDialog
      /\ UNCHANGED <<menu, used, form, work, lifted>>
  BY DEF Confirm
<1>3. WorkInv' /\ menu' \in Menus /\ dialog'.of \subseteq Runs \cup Robots
  <2>1. WorkInv'
    BY <1>1, <1>2, WorkSame
  <2> QED BY <1>1, <1>2, <2>1 DEF NoDialog
<1>4. ASSUME NEW d \in Removal, Commit(d) PROVE DbInv' /\ PageInv' /\ FormInv'
  <2>1. DbInv' /\ db'.limited \subseteq db.limited
    BY <1>1, <1>2, <1>4, RemovalIs, DbStep DEF Commit, DbInv
  <2>2. PageInv'
    BY <1>1, <1>4, <2>1, CommitIs
  <2> QED BY <1>2, <1>3, <1>4, <2>1, <2>2, CommitForm
<1>5. CASE UNCHANGED <<db, page>>
  <2>1. DbInv' /\ PageInv'
    BY <1>1, <1>2, <1>5, DbSame, PageSame
  <2>2. FormInv'
    BY <1>2, <1>3, <1>5, <2>1, CommitForm
  <2> QED BY <1>3, <2>1, <2>2 DEF FullInv
<1> QED BY <1>3, <1>4, <1>5 DEF Confirm, FullInv
-----------------------------------------------------------------------------
(* Automations: the form, the switch, the limits and the import. *)

\* A handler that commits, or that leaves the database and the page alone.
LEMMA CommitInv ==
  ASSUME FullInv, DbInv', FormInv', used \subseteq used', UNCHANGED <<menu, work>>,
         (\E d : Commit(d)) \/ UNCHANGED <<db, page>>
  PROVE  FullInv'
<1>1. PageInv'
  BY CommitIs, PageSame DEF FullInv
<1>2. WorkInv' /\ menu' \in Menus
  BY WorkSame DEF FullInv
<1> QED BY <1>1, <1>2 DEF FullInv

\* A row of robots is written: no run comes or goes.
LEMMA RobotRow ==
  ASSUME DbInv, NEW b \in Robots, NEW s \in RobotStates, NEW limit \in BOOLEAN,
         db' = WithRobot(db, b, s, limit), UNCHANGED used
  PROVE  /\ DbInv'
         /\ \A c \in db'.limited : c \in db.limited \/ (c = b /\ limit)
<1>1. db' \in Contents /\ db'.state = db.state
  <2>1. db \in Contents /\ limit \in BOOLEAN
    BY DEF DbInv
  <2>2. db' \in Contents
    BY <2>1, WithRobotIs
  <2>3. db'.state = db.state
    BY <2>1 DEF WithRobot, Contents
  <2> QED BY <2>2, <2>3
<1>2. used' \in SUBSET Runs /\ used \subseteq used' /\ IsFiniteSet(used')
  BY DEF DbInv
<1>3. \A x \in Runs : db'.state[x] # "absent" => db.state[x] # "absent" \/ x \in used'
  BY <1>1
<1>4. DbInv'
  BY <1>1, <1>2, <1>3, DbStep
<1>5. db'.limited = WithLimit(db.limited, b, limit)
  BY DEF DbInv, WithRobot, Contents
<1> QED BY <1>4, <1>5 DEF WithLimit

LEMMA ToggleInv ==
  ASSUME FullInv, NEW b \in Robots, Toggle(b)
  PROVE  FullInv'
<1>1. DbInv /\ FormInv /\ UNCHANGED <<menu, used, form, dialog, work, lifted>> /\ used \subseteq used'
  BY DEF FullInv, Toggle
<1>2. CASE UNCHANGED <<db, page>>
  <2>1. DbInv' /\ FormInv'
    BY <1>1, <1>2, DbSame, FormSame
  <2> QED BY <1>1, <1>2, <2>1, CommitInv
<1>3. ASSUME NEW s \in RobotStates, Commit(WithRobot(db, b, s, b \in db.limited)) PROVE FullInv'
  <2> DEFINE q == b \in db.limited
  <2>1. q \in BOOLEAN /\ Commit(WithRobot(db, b, s, q))
    BY <1>3
  <2> HIDE DEF q
  <2>2. DbInv' /\ \A c \in db'.limited : c \in db.limited \/ (c = b /\ q)
    BY <1>1, <2>1, RobotRow DEF Commit
  <2>3. \A c \in lifted : c \in db'.limited => c \in db.limited
    BY <2>2 DEF q
  <2>4. FormInv'
    <3>1. dialog'.of \subseteq Runs \cup Robots
      BY <1>1 DEF FormInv
    <3> QED BY <1>1, <2>1, <2>2, <2>3, <3>1, CommitForm
  <2> QED BY <1>1, <2>1, <2>2, <2>4, CommitInv
<1>4. \/ UNCHANGED <<db, page>>
      \/ \E s \in RobotStates : Commit(WithRobot(db, b, s, b \in db.limited))
  <2>1. "active" \in RobotStates /\ "inactive" \in RobotStates
    BY DEF RobotStates
  <2> QED BY <2>1 DEF Toggle
<1> QED BY <1>2, <1>3, <1>4

\* The handlers that change the form alone.
LEMMA EditInv ==
  ASSUME FullInv, CancelEdit \/ TypeLimit \/ \E b \in Robots : Edit(b)
  PROVE  FullInv'
<1>1. /\ DbInv /\ PageInv /\ FormInv /\ WorkInv /\ menu \in Menus
      /\ UNCHANGED <<menu, db, used, page, dialog, work>>
  BY DEF FullInv, CancelEdit, TypeLimit, Edit
<1>2. /\ form' \in [editing : Robots \cup {NoRobot}, limit : BOOLEAN] /\ lifted' \subseteq lifted
      /\ \A c \in lifted' : form'.editing = c => ~form'.limit
  <2>1. CASE CancelEdit
    <3>1. form' = NoForm /\ lifted' = lifted
      BY <2>1 DEF CancelEdit
    <3> QED BY <3>1 DEF NoForm
  <2>2. CASE TypeLimit
    <3>1. form' = [form EXCEPT !.limit = ~@] /\ lifted' = lifted \ {form.editing}
      BY <2>2 DEF TypeLimit
    <3>2. form'.editing = form.editing /\ form' \in [editing : Robots \cup {NoRobot}, limit : BOOLEAN]
      BY <1>1, <3>1 DEF FormInv
    <3> QED BY <3>1, <3>2
  <2>3. ASSUME NEW b \in Robots, Edit(b)
        PROVE  /\ form' \in [editing : Robots \cup {NoRobot}, limit : BOOLEAN] /\ lifted' = lifted
               /\ \A c \in lifted' : form'.editing = c => ~form'.limit
    <3> DEFINE q == b \in view.db.limited
    <3>1. q \in BOOLEAN /\ form' = [editing |-> b, limit |-> q] /\ lifted' = lifted
      BY <2>3 DEF Edit
    <3>2. b \in lifted => ~q
      BY <1>1 DEF FormInv
    <3> HIDE DEF q
    <3> QED BY <3>1, <3>2
  <2> QED BY <2>1, <2>2, <2>3
<1>3. FormInv'
  BY <1>1, <1>2 DEF FormInv, page
<1>4. DbInv' /\ PageInv' /\ WorkInv'
  BY <1>1, DbSame, PageSame, WorkSame
<1> QED BY <1>1, <1>3, <1>4 DEF FullInv

LEMMA SaveInv ==
  ASSUME FullInv, Save
  PROVE  FullInv'
<1>1. DbInv /\ PageInv /\ FormInv /\ UNCHANGED <<menu, used, dialog, work>> /\ used \subseteq used'
  BY DEF FullInv, Save
<1>2. form.limit \in BOOLEAN /\ db.robot \in [Robots -> RobotStates] /\ "active" \in RobotStates
  BY <1>1 DEF FormInv, DbInv, Contents, RobotStates
<1>3. ASSUME NEW b \in Robots, NEW s \in RobotStates, Commit(WithRobot(db, b, s, form.limit)),
             form' = NoForm, lifted' \subseteq lifted, form.editing = b \/ b \notin lifted'
      PROVE  FullInv'
  <2>1. DbInv' /\ \A c \in db'.limited : c \in db.limited \/ (c = b /\ form.limit)
    BY <1>1, <1>2, <1>3, RobotRow DEF Commit
  <2>2. view'.db \in {view.db, db'}
    BY <1>1, <1>3, <2>1, CommitIs
  <2>3. \A c \in lifted' : c \notin db'.limited /\ c \notin view'.db.limited
    BY <1>1, <1>3, <2>1, <2>2 DEF FormInv
  <2>4. FormInv'
    BY <1>1, <1>3, <2>3 DEF FormInv, NoForm
  <2> QED BY <1>1, <1>3, <2>1, <2>4, CommitInv
<1>4. CASE UNCHANGED <<db, page, form, lifted>>
  <2>1. DbInv' /\ FormInv'
    BY <1>1, <1>4, DbSame, FormSame
  <2> QED BY <1>1, <1>4, <2>1, CommitInv
<1>5. \/ UNCHANGED <<db, page, form, lifted>>
      \/ \E b \in Robots, s \in RobotStates :
           /\ Commit(WithRobot(db, b, s, form.limit)) /\ form' = NoForm /\ lifted' \subseteq lifted
           /\ form.editing = b \/ b \notin lifted'
  BY <1>2 DEF Save
<1> QED BY <1>3, <1>4, <1>5

\* The limits go and the form with them; and the page, when it is drawn.
LEMMA LimitsInv ==
  ASSUME FullInv, ConfirmLimits
  PROVE  FullInv'
<1>1. /\ DbInv /\ PageInv /\ FormInv /\ UNCHANGED <<menu, used, work>> /\ used \subseteq used'
      /\ dialog' = NoDialog
  BY DEF FullInv, ConfirmLimits
<1>2. CASE UNCHANGED <<db, page, form, lifted>>
  <2>1. FormInv'
    BY <1>1, <1>2 DEF FormInv, NoDialog, page
  <2>2. DbInv'
    BY <1>1, <1>2, DbSame
  <2> QED BY <1>1, <1>2, <2>1, <2>2, CommitInv
<1>3. CASE /\ Commit(Unlimited(db, RowsIn(db, {"queued"})))
           /\ form' = FormAfterLimits
           /\ lifted' = IF view'.db = db' THEN lifted \cup db.limited ELSE lifted
  <2> DEFINE S == RowsIn(db, {"queued"})
  <2>1. S \in SUBSET Runs /\ db \in Contents
    BY <1>1 DEF RowsIn, DbInv
  <2>2. /\ Unlimited(db, S) \in Contents /\ Unlimited(db, S).state = db.state
        /\ Unlimited(db, S).limited = {} /\ db' = Unlimited(db, S)
    BY <1>3, <2>1, UnlimitedIs DEF Commit
  <2> HIDE DEF S
  <2>3. DbInv'
    BY <1>1, <2>2, DbStep DEF DbInv
  <2>4. view'.db \in {view.db, db'}
    BY <1>1, <1>3, <2>3, CommitIs
  <2>5. \A c \in lifted' : c \in Robots /\ c \notin db'.limited /\ c \notin view'.db.limited
    BY <1>1, <1>3, <2>1, <2>2, <2>4 DEF FormInv, Contents
  <2>6. FormInv'
    BY <1>1, <1>3, <2>5 DEF FormInv, FormAfterLimits, NoForm, NoDialog
  <2> QED BY <1>1, <1>3, <2>3, <2>6, CommitInv
<1> QED BY <1>2, <1>3 DEF ConfirmLimits

LEMMA ImportInv ==
  ASSUME FullInv, ConfirmImport
  PROVE  FullInv'
<1>1. /\ DbInv /\ PageInv /\ FormInv /\ UNCHANGED <<menu, used, form, work>> /\ used \subseteq used'
      /\ dialog' = NoDialog
  BY DEF FullInv, ConfirmImport
<1>2. CASE UNCHANGED <<db, page, lifted>>
  <2>1. FormInv'
    BY <1>1, <1>2 DEF FormInv, NoDialog, page
  <2>2. DbInv'
    BY <1>1, <1>2, DbSame
  <2> QED BY <1>1, <1>2, <2>1, <2>2, CommitInv
<1>3. ASSUME NEW b \in Robots, NEW s \in {"active", "inactive"}, NEW limit \in BOOLEAN,
             Commit(WithRobot(db, b, s, limit)), lifted' = lifted \ {b}
      PROVE  FullInv'
  <2>1. s \in RobotStates
    BY DEF RobotStates
  <2>2. DbInv' /\ \A c \in db'.limited : c \in db.limited \/ (c = b /\ limit)
    BY <1>1, <1>3, <2>1, RobotRow DEF Commit
  <2>3. view'.db \in {view.db, db'}
    BY <1>1, <1>3, <2>2, CommitIs
  <2>4. \A c \in lifted' : c \notin db'.limited /\ c \notin view'.db.limited
    BY <1>1, <1>3, <2>2, <2>3 DEF FormInv
  <2>5. FormInv'
    BY <1>1, <1>3, <2>4 DEF FormInv, NoDialog
  <2> QED BY <1>1, <1>3, <2>2, <2>5, CommitInv
<1> QED BY <1>2, <1>3 DEF ConfirmImport
-----------------------------------------------------------------------------
(* The runs and the sessions. *)

\* A run that enqueue() creates.
LEMMA CreatedIs ==
  ASSUME DbInv, NEW b \in Robots, Accepted(b), db' = Created(b), used' = used \cup {Min(New(b))}
  PROVE  /\ DbInv' /\ Min(New(b)) \in Runs /\ used \subseteq used' /\ Min(New(b)) \in used'
         /\ db'.limited = db.limited
<1> DEFINE x == Min(New(b))
<1>1. New(b) \in SUBSET Runs /\ New(b) # {} /\ Runs \subseteq Nat
  BY PanelAssumption DEF New, Accepted
<1>2. x \in Runs
  <2>1. New(b) \in SUBSET Nat
    BY <1>1
  <2>2. x \in New(b)
    BY <1>1, <2>1, LeastIs
  <2> QED BY <1>1, <2>2
<1>3. db' = WithRun(db, x, FALSE) /\ used' = used \cup {x}
  BY DEF Created
<1> HIDE DEF x
<1>4. db \in Contents /\ used \in SUBSET Runs /\ IsFiniteSet(used)
  BY DEF DbInv
<1>5. /\ WithRun(db, x, FALSE) \in Contents /\ WithRun(db, x, FALSE).limited = db.limited
      /\ WithRun(db, x, FALSE).state = [db.state EXCEPT ![x] = "queued"]
  <2>1. FALSE \in BOOLEAN
    OBVIOUS
  <2> QED BY <1>2, <1>4, <2>1, WithRunIs
<1>6. \A y \in Runs \ {x} : db'.state[y] = db.state[y]
  BY <1>3, <1>4, <1>5 DEF Contents
<1>7. IsFiniteSet(used') /\ used' \in SUBSET Runs /\ used \subseteq used' /\ x \in used'
  BY <1>2, <1>3, <1>4, FS_AddElement
<1>8. DbInv'
  <2>1. \A y \in Runs : db'.state[y] # "absent" => db.state[y] # "absent" \/ y \in used'
    BY <1>6, <1>7
  <2>2. db' \in Contents
    BY <1>3, <1>5
  <2> QED BY <1>7, <2>1, <2>2, DbStep
<1> QED BY <1>2, <1>3, <1>5, <1>7, <1>8 DEF x

LEMMA EnqueueInv ==
  ASSUME FullInv, NEW b \in Robots, Enqueue(b)
  PROVE  FullInv'
<1>1. DbInv /\ FormInv /\ UNCHANGED <<menu, form, dialog, work, lifted>>
  BY DEF FullInv, Enqueue
<1>2. dialog'.of \subseteq Runs \cup Robots
  BY <1>1 DEF FormInv
<1>3. CASE Accepted(b)
  <2>1. Commit(Created(b)) /\ used' = used \cup {Min(New(b))}
    BY <1>3 DEF Enqueue
  <2>2. DbInv' /\ used \subseteq used' /\ db'.limited = db.limited
    BY <1>1, <1>3, <2>1, CreatedIs DEF Commit
  <2>3. FormInv'
    BY <1>1, <1>2, <2>1, <2>2, CommitForm
  <2> QED BY <1>1, <2>1, <2>2, <2>3, CommitInv
<1>4. CASE ~Accepted(b)
  <2>1. UNCHANGED <<db, page, used>>
    BY <1>4 DEF Enqueue
  <2>2. DbInv' /\ used \subseteq used' /\ FormInv'
    BY <1>1, <2>1, DbSame, FormSame
  <2> QED BY <1>1, <2>1, <2>2, CommitInv
<1> QED BY <1>3, <1>4

\* A handler that awaits a session of its own: the button stays out of reach
\* only as long as the handler is there.
LEMMA AwaitInv ==
  ASSUME WorkInv, NEW j \in Jobs, NEW k \in {"queue", "direct"}, NEW S \in SUBSET Runs,
         used \subseteq used', S \subseteq used', Await(j, k, S)
  PROVE  WorkInv'
<1> DEFINE e == [kind |-> k, run |-> S, at |-> "start", watched |-> TRUE]
<1>1. /\ jobs \in [Jobs -> JobType] /\ jobs[j] = Idle /\ jobs' = [jobs EXCEPT ![j] = e]
      /\ disabled' = TRUE /\ lock' = lock
  BY DEF Await, WorkInv
<1>2. e \in JobType /\ e.at = "start" /\ e.run = S /\ e.watched
  BY DEF JobType
<1>3. Idle.at = "idle"
  BY DEF Idle
<1> HIDE DEF e
<1>4. jobs' \in [Jobs -> JobType] /\ jobs'[j] = e /\ \A i \in Jobs \ {j} : jobs'[i] = jobs[i]
  BY <1>1, <1>2
<1>5. \A i \in Jobs : jobs'[i].run \subseteq used'
  BY <1>2, <1>4 DEF WorkInv
<1>6. \A i \in Jobs : jobs'[i].at \in {"claim", "run"} <=> lock' = {i}
  BY <1>1, <1>2, <1>3, <1>4 DEF WorkInv, JobInv
<1>7. \A i \in Jobs : jobs'[i].at = "ended" => jobs'[i].watched
  BY <1>2, <1>4 DEF WorkInv, JobInv
<1>8. \E i \in Jobs : jobs'[i].watched
  BY <1>2, <1>4
<1> QED BY <1>1, <1>4, <1>5, <1>6, <1>7, <1>8 DEF WorkInv, JobInv

LEMMA PlayInv ==
  ASSUME FullInv, NEW b \in Robots, Play(b)
  PROVE  FullInv'
<1>1. /\ DbInv /\ PageInv /\ FormInv /\ WorkInv /\ menu \in Menus
      /\ UNCHANGED <<menu, form, dialog, lifted>>
  BY DEF FullInv, Play
<1>2. CASE Accepted(b)
  <2> DEFINE x == Min(New(b))
  <2>1. /\ db' = Created(b) /\ used' = used \cup {x} /\ UNCHANGED run_state_filter
        /\ \/ /\ Drawn(db', run_state_filter, history_page,
                       [Done EXCEPT !.start = IF disabled THEN {} ELSE {x}])
              /\ UNCHANGED work \/ \E j \in Jobs : Await(j, "direct", {x})
           \/ RefreshFails(db', run_state_filter, history_page) /\ UNCHANGED work
    BY <1>2 DEF Play
  <2>2. DbInv' /\ x \in Runs /\ used \subseteq used' /\ x \in used' /\ db'.limited = db.limited
    BY <1>1, <1>2, <2>1, CreatedIs
  <2> DEFINE rest == [Done EXCEPT !.start = IF disabled THEN {} ELSE {x}]
  <2>3. rest \in Todos /\ rest.start \subseteq used'
    <3> HIDE DEF x
    <3>1. rest.start \subseteq {x} /\ rest \in Todos
      BY <2>2, DoneIs DEF Todos
    <3> QED BY <2>2, <3>1
  <2> HIDE DEF x, rest
  <2>4. /\ history_page \in Nat \ {0} /\ history_page <= MaxPage(view.total)
        /\ run_state_filter \in {All, "queued", "final"}
    BY <1>1 DEF PageInv, PageInRange
  <2>5. PageInv' /\ view'.db \in {view.db, db'}
    <3>1. CASE Drawn(db', run_state_filter, history_page, rest)
      BY <1>1, <2>1, <2>2, <2>3, <2>4, <3>1, DrawStep
    <3>2. CASE RefreshFails(db', run_state_filter, history_page)
      <4>1. Refresh(db', run_state_filter, history_page)
        BY <3>2 DEF Refresh
      <4> QED BY <1>1, <2>1, <2>2, <2>4, <4>1, PageStep
    <3> QED BY <2>1, <3>1, <3>2 DEF rest
  <2>6. WorkInv'
    <3>1. ASSUME NEW j \in Jobs, Await(j, "direct", {x}) PROVE WorkInv'
      BY <1>1, <2>2, <3>1, AwaitInv
    <3>2. CASE UNCHANGED work
      BY <1>1, <2>2, <3>2, WorkSame
    <3> QED BY <2>1, <3>1, <3>2
  <2>7. FormInv'
    BY <1>1, <2>2, <2>5, FormKept DEF FormInv
  <2> QED BY <1>1, <2>2, <2>5, <2>6, <2>7 DEF FullInv
<1>3. CASE ~Accepted(b)
  <2>1. UNCHANGED <<db, page, used, work>>
    BY <1>3 DEF Play
  <2>2. DbInv' /\ PageInv' /\ WorkInv' /\ FormInv'
    BY <1>1, <2>1, DbSame, PageSame, WorkSame, FormSame
  <2> QED BY <1>1, <2>2 DEF FullInv
<1> QED BY <1>2, <1>3

\* One run changes its state.
LEMMA StateStep ==
  ASSUME DbInv, NEW x \in used, NEW s \in RunStates, db' = InState(db, x, s), UNCHANGED used
  PROVE  DbInv' /\ db'.limited = db.limited
<1>1. db \in Contents /\ used \in SUBSET Runs /\ x \in Runs /\ IsFiniteSet(used)
  BY DEF DbInv
<1>2. db' \in Contents /\ db'.state = [db.state EXCEPT ![x] = s] /\ db'.limited = db.limited
  BY <1>1, InStateIs
<1>3. \A y \in Runs : db'.state[y] # "absent" => db.state[y] # "absent" \/ y \in used'
  BY <1>1, <1>2 DEF Contents
<1>4. used' \in SUBSET Runs /\ used \subseteq used' /\ IsFiniteSet(used')
  BY <1>1
<1> QED BY <1>2, <1>3, <1>4, DbStep

LEMMA StopInv ==
  ASSUME FullInv, NEW x \in Runs, Stop(x)
  PROVE  FullInv'
<1>1. DbInv /\ FormInv /\ UNCHANGED <<menu, used, form, dialog, work, lifted>>
  BY DEF FullInv, Stop
<1>2. dialog'.of \subseteq Runs \cup Robots /\ used \subseteq used'
  BY <1>1 DEF FormInv
<1>3. CASE db.state[x] \in {"queued", "running"}
  <2> DEFINE s == IF db.state[x] = "queued" THEN "final" ELSE "cancelling"
  <2>1. Commit(InState(db, x, s))
    BY <1>3 DEF Stop, CancelOf, Cancelled
  <2>2. x \in used /\ s \in RunStates
    BY <1>1, <1>3 DEF DbInv, Rows, RunStates, Active
  <2> HIDE DEF s
  <2>3. DbInv' /\ db'.limited = db.limited
    BY <1>1, <2>1, <2>2, StateStep DEF Commit
  <2>4. FormInv'
    BY <1>1, <1>2, <2>1, <2>3, CommitForm
  <2> QED BY <1>1, <1>2, <2>1, <2>3, <2>4, CommitInv
<1>4. CASE db.state[x] \notin {"queued", "running"}
  <2>1. Commit(db)
    BY <1>4 DEF Stop
  <2>2. DbInv' /\ db' = db
    BY <1>1, <2>1, DbSame DEF Commit
  <2>3. FormInv'
    BY <1>1, <1>2, <2>1, <2>2, CommitForm
  <2> QED BY <1>1, <1>2, <2>1, <2>2, <2>3, CommitInv
<1> QED BY <1>3, <1>4

LEMMA ExecuteInv ==
  ASSUME FullInv, ExecuteQueue
  PROVE  FullInv'
<1>1. /\ DbInv /\ PageInv /\ FormInv /\ WorkInv /\ menu \in Menus
      /\ UNCHANGED <<menu, db, used, page, form, dialog, lifted>>
  BY DEF FullInv, ExecuteQueue
<1>2. PICK j \in Jobs : Await(j, "queue", {})
  BY DEF ExecuteQueue
<1>3. WorkInv'
  <2>1. {} \in SUBSET Runs /\ {} \subseteq used' /\ used \subseteq used' /\ "queue" \in {"queue", "direct"}
    BY <1>1
  <2> QED BY <1>1, <1>2, <2>1, AwaitInv
<1>4. DbInv' /\ PageInv' /\ FormInv'
  BY <1>1, DbSame, PageSame, FormSame
<1> QED BY <1>1, <1>3, <1>4 DEF FullInv
-----------------------------------------------------------------------------
(* The handlers that wait for a session, and the sessions. *)

\* The handler of a job ends, or goes while its thread runs on: the button is
\* given back.
LEMMA HandlerGoes ==
  ASSUME WorkInv, NEW j \in Jobs, UNCHANGED used, GiveBack(j)
  PROVE  WorkInv'
<1> DEFINE e == IF jobs[j].at = "ended" THEN Idle ELSE [jobs[j] EXCEPT !.watched = FALSE]
<1>1. jobs \in [Jobs -> JobType] /\ jobs[j] \in JobType /\ jobs[j].run \subseteq used
  BY DEF WorkInv
<1>2. e \in JobType /\ e.run \subseteq used
  <2>1. Idle \in JobType /\ Idle.run = {}
    BY DEF Idle, JobType
  <2> QED BY <1>1, <2>1 DEF JobType
<1>3. e.at # "ended" /\ (e.at \in {"claim", "run"} <=> jobs[j].at \in {"claim", "run"})
  BY <1>1 DEF Idle, JobType
<1>4. jobs' = [jobs EXCEPT ![j] = e] /\ disabled' = FALSE /\ lock' = lock
  BY DEF GiveBack
<1> HIDE DEF e
<1>5. jobs' \in [Jobs -> JobType] /\ jobs'[j] = e /\ \A i \in Jobs \ {j} : jobs'[i] = jobs[i]
  BY <1>1, <1>2, <1>4
<1>6. \A i \in Jobs : jobs'[i].run \subseteq used'
  BY <1>2, <1>5 DEF WorkInv
<1>7. \A i \in Jobs : jobs'[i].at \in {"claim", "run"} <=> lock' = {i}
  BY <1>3, <1>4, <1>5 DEF WorkInv, JobInv
<1>8. \A i \in Jobs : jobs'[i].at = "ended" => jobs'[i].watched
  BY <1>3, <1>5 DEF WorkInv, JobInv
<1> QED BY <1>4, <1>5, <1>6, <1>7, <1>8 DEF WorkInv, JobInv

LEMMA HandlerInv ==
  ASSUME FullInv, NEW j \in Jobs, Watch(j) \/ Poll(j) \/ HandlerEnds(j)
  PROVE  FullInv'
<1>1. /\ DbInv /\ PageInv /\ FormInv /\ WorkInv /\ menu \in Menus
      /\ UNCHANGED <<menu, db, used, run_state_filter, form, dialog, lifted>>
  BY DEF FullInv, Watch, Poll, HandlerEnds
<1>2. /\ history_page \in Nat \ {0} /\ history_page <= MaxPage(view.total)
      /\ run_state_filter \in {All, "queued", "final"} /\ DbInv'
  BY <1>1, DbSame DEF PageInv, PageInRange
<1>3. PageInv' /\ view'.db \in {view.db, db'}
  <2>1. CASE Poll(j)
    <3> DEFINE rest == [Done EXCEPT !.poll = {j}]
    <3>1. rest \in Todos /\ rest.start \subseteq used'
      BY DoneIs DEF Todos
    <3>2. Drawn(db', run_state_filter, history_page, rest)
      BY <1>1, <2>1 DEF Poll
    <3> HIDE DEF rest
    <3> QED BY <1>1, <1>2, <3>1, <3>2, DrawStep
  <2>2. CASE Watch(j) \/ HandlerEnds(j)
    <3>1. Refresh(db', run_state_filter, history_page)
      BY <1>1, <2>2 DEF Watch, HandlerEnds
    <3> QED BY <1>1, <1>2, <3>1, PageStep
  <2> QED BY <2>1, <2>2
<1>4. WorkInv'
  <2>1. CASE Poll(j)
    BY <1>1, <2>1, WorkSame DEF Poll
  <2>2. CASE Watch(j) \/ HandlerEnds(j)
    BY <1>1, <2>2, HandlerGoes DEF Watch, HandlerEnds
  <2> QED BY <2>1, <2>2
<1>5. FormInv'
  BY <1>1, <1>3, FormKept DEF FormInv
<1> QED BY <1>1, <1>2, <1>3, <1>4, <1>5 DEF FullInv

\* The second list_runs(): the rows of the page that was counted, unless others
\* have committed since.
LEMMA RedrawInv ==
  ASSUME FullInv, Redraw
  PROVE  FullInv'
<1>1. /\ DbInv /\ PageInv /\ FormInv /\ WorkInv /\ menu \in Menus /\ TodoInv
      /\ UNCHANGED <<menu, db, used, history_page, run_state_filter, form, dialog, lifted>>
      /\ todo' = Done
  BY DEF FullInv, PageInv, Redraw
<1>2. PICK d \in todo.read :
        view' = [View(db, run_state_filter, history_page) EXCEPT
                   !.total = view.total, !.stale = db # d]
  BY DEF Redraw
<1>3. DbInv'
  BY <1>1, DbSame
<1>4. PageInv' /\ view'.db = db'
  <2> DEFINE T == Filtered(db, run_state_filter)
             n == view.total
             q == db # d
  <2>1. /\ view \in Views /\ n \in Nat /\ history_page \in Nat \ {0} /\ history_page <= MaxPage(n)
        /\ run_state_filter \in {All, "queued", "final"}
    BY <1>1 DEF PageInv, PageInRange, Views
  <2>2. T \in SUBSET Runs /\ T \in SUBSET Nat /\ IsFiniteSet(T)
    BY <1>1, FilteredIs DEF DbInv
  <2>3. q \in BOOLEAN /\ (~q => n = Cardinality(T))
    BY <1>1 DEF TodoInv
  <2>4. view' = [db |-> db, total |-> n, rows |-> Slice(T, history_page), stale |-> q]
    BY <1>2 DEF View
  <2>5. Slice(T, history_page) \in SUBSET Runs
    BY <2>2 DEF Slice
  <2>6. ~q => (Slice(T, history_page) = {} <=> n = 0)
    BY <2>1, <2>2, <2>3, SliceIs
  <2> HIDE DEF T, n, q
  <2>7. view' \in Views /\ view'.db = db /\ view'.total = n /\ (view'.stale <=> q)
    BY <1>1, <2>1, <2>3, <2>4, <2>5 DEF Views, DbInv
  <2>8. PageInRange'
    BY <1>1, <2>1, <2>4, <2>6, <2>7 DEF PageInRange, MaxPage
  <2>9. TodoInv'
    BY <1>1, DoneInv
  <2> QED BY <1>1, <2>1, <2>7, <2>8, <2>9 DEF PageInv
<1>5. WorkInv'
  <2>1. CASE UNCHANGED work
    BY <1>1, <2>1, WorkSame
  <2>2. ASSUME NEW j \in Jobs, Await(j, "direct", todo.start) PROVE WorkInv'
    <3>1. todo.start \in SUBSET Runs /\ todo.start \subseteq used' /\ used \subseteq used'
      BY <1>1 DEF TodoInv, Todos
    <3> QED BY <1>1, <2>2, <3>1, AwaitInv
  <2> QED BY <2>1, <2>2 DEF Redraw
<1>6. FormInv'
  BY <1>1, <1>4, FormKept DEF FormInv
<1> QED BY <1>1, <1>3, <1>4, <1>5, <1>6 DEF FullInv

LEMMA RedrawFailsInv ==
  ASSUME FullInv, RedrawFails
  PROVE  FullInv'
<1>1. /\ DbInv /\ PageInv /\ FormInv /\ WorkInv /\ menu \in Menus
      /\ UNCHANGED <<menu, db, used, run_state_filter, form, dialog, lifted>>
  BY DEF FullInv, RedrawFails
<1>2. DbInv'
  BY <1>1, DbSame
<1>3. ASSUME todo' = Done, UNCHANGED <<view, history_page, work>> PROVE FullInv'
  <2>1. TodoInv'
    BY <1>3, DoneInv
  <2>2. PageInv'
    BY <1>1, <1>3, <2>1 DEF PageInv, PageInRange, MaxPage
  <2>3. WorkInv'
    BY <1>1, <1>3, WorkSame
  <2>4. FormInv'
    BY <1>1, <1>3, FormKept DEF FormInv
  <2> QED BY <1>1, <1>2, <2>2, <2>3, <2>4 DEF FullInv
<1>4. ASSUME NEW j \in Jobs, GiveBack(j), Refresh(db, run_state_filter, history_page) PROVE FullInv'
  <2>1. /\ history_page \in Nat \ {0} /\ history_page <= MaxPage(view.total)
        /\ run_state_filter \in {All, "queued", "final"}
        /\ Refresh(db', run_state_filter, history_page)
    BY <1>1, <1>4 DEF PageInv, PageInRange
  <2>2. PageInv' /\ view'.db \in {view.db, db'}
    BY <1>1, <1>2, <2>1, PageStep
  <2>3. WorkInv'
    BY <1>1, <1>4, HandlerGoes
  <2>4. FormInv'
    BY <1>1, <2>2, FormKept DEF FormInv
  <2> QED BY <1>1, <1>2, <2>2, <2>3, <2>4 DEF FullInv
<1>5. todo \in Todos
  BY <1>1 DEF PageInv, TodoInv
<1> QED BY <1>3, <1>4, <1>5 DEF RedrawFails, Todos

\* A step of a thread or of another process: the page and the handlers stay.
LEMMA SessionFrame ==
  ASSUME FullInv, DbInv', WorkInv', UNCHANGED <<menu, used, page, form, dialog, disabled, lifted>>,
         db'.limited = db.limited
  PROVE  FullInv'
<1>1. PageInv'
  BY PageSame DEF FullInv
<1>2. FormInv'
  BY FormKept DEF FullInv, FormInv, page
<1> QED BY <1>1, <1>2 DEF FullInv

\* A job moves on with the mutex as it is, or takes it, or gives it back.
LEMMA JobStep ==
  ASSUME WorkInv, NEW j \in Jobs, NEW e \in JobType, jobs' = [jobs EXCEPT ![j] = e],
         UNCHANGED <<used, disabled>>, e.run \subseteq used,
         e.at = "ended" => e.watched,
         jobs[j].watched => e.watched,
         \/ lock' = lock /\ (e.at \in {"claim", "run"} <=> jobs[j].at \in {"claim", "run"})
         \/ lock = {} /\ lock' = {j} /\ e.at \in {"claim", "run"}
         \/ lock' = {} /\ lock = {j} /\ e.at \notin {"claim", "run"}
  PROVE  WorkInv'
<1>1. jobs \in [Jobs -> JobType] /\ lock \subseteq Jobs /\ disabled \in BOOLEAN
  BY DEF WorkInv
<1>2. jobs' \in [Jobs -> JobType] /\ jobs'[j] = e /\ \A i \in Jobs \ {j} : jobs'[i] = jobs[i]
  BY <1>1
<1>3. \A i \in Jobs : jobs'[i].run \subseteq used'
  BY <1>2 DEF WorkInv
<1>4. ASSUME NEW i \in Jobs PROVE jobs'[i].at \in {"claim", "run"} <=> lock' = {i}
  <2>1. \A h \in Jobs : jobs[h].at \in {"claim", "run"} <=> lock = {h}
    BY DEF WorkInv, JobInv
  <2>2. CASE i = j
    BY <1>2, <2>1, <2>2
  <2>3. CASE i # j
    BY <1>2, <2>1, <2>3
  <2> QED BY <2>2, <2>3
<1>5. \A i \in Jobs : jobs'[i].at = "ended" => jobs'[i].watched
  BY <1>2 DEF WorkInv, JobInv
<1>6. disabled' => \E i \in Jobs : jobs'[i].watched
  BY <1>2 DEF WorkInv, JobInv
<1> QED BY <1>1, <1>2, <1>3, <1>4, <1>5, <1>6 DEF WorkInv, JobInv

\* reconcile() brings no run.
LEMMA ReconcileStep ==
  ASSUME DbInv, db' = Reconciled(db), UNCHANGED used
  PROVE  DbInv' /\ db'.limited = db.limited
<1>1. db \in Contents /\ used' \in SUBSET Runs /\ used \subseteq used' /\ IsFiniteSet(used')
  BY DEF DbInv
<1>2. db' \in Contents /\ db'.limited = db.limited
  BY <1>1, ReconciledIs
<1>3. \A x \in Runs :
        db'.state[x] = IF db.state[x] \in {"running", "cancelling"} THEN "final" ELSE db.state[x]
  BY <1>1, ReconciledIs
<1>4. \A x \in Runs : db'.state[x] # "absent" => db.state[x] # "absent" \/ x \in used'
  BY <1>3
<1> QED BY <1>1, <1>2, <1>4, DbStep

LEMMA EndOfIs ==
  ASSUME WorkInv, NEW j \in Jobs
  PROVE  /\ EndOf(j) \in JobType /\ EndOf(j).run \subseteq used
         /\ EndOf(j).at = "ended" => EndOf(j).watched
         /\ jobs[j].watched => EndOf(j).watched
         /\ EndOf(j).at \notin {"claim", "run"}
<1>1. jobs[j] \in JobType /\ jobs[j].run \subseteq used
  BY DEF WorkInv
<1>2. CASE jobs[j].watched
  <2>1. EndOf(j) = [jobs[j] EXCEPT !.at = "ended"]
    BY <1>2 DEF EndOf
  <2> QED BY <1>1, <1>2, <2>1 DEF JobType
<1>3. CASE ~jobs[j].watched
  <2>1. EndOf(j) = Idle
    BY <1>3 DEF EndOf
  <2> QED BY <1>3, <2>1 DEF JobType, Idle
<1> QED BY <1>2, <1>3

\* The thread leaves the mutex.
LEMMA LeaveIs ==
  ASSUME WorkInv, NEW j \in Jobs, jobs[j].at \in {"claim", "run"}, Leave(j)
  PROVE  WorkInv' /\ UNCHANGED <<menu, used, page, form, dialog, disabled, lifted>>
<1>1. lock = {j}
  BY DEF WorkInv, JobInv
<1>2. /\ jobs' = [jobs EXCEPT ![j] = EndOf(j)] /\ lock' = {}
      /\ UNCHANGED <<menu, used, page, form, dialog, disabled, lifted>>
  BY DEF Leave
<1>3. WorkInv'
  BY <1>1, <1>2, EndOfIs, JobStep
<1> QED BY <1>2, <1>3

LEMMA EnterInv ==
  ASSUME FullInv, NEW j \in Jobs, TaskFires(j) \/ Enter(j)
  PROVE  FullInv'
<1>1. DbInv /\ WorkInv /\ jobs \in [Jobs -> JobType] /\ jobs[j] \in JobType /\ jobs[j].run \subseteq used
  BY DEF FullInv, WorkInv
<1>2. CASE TaskFires(j)
  <2> DEFINE e == [Idle EXCEPT !.kind = "queue", !.at = "claim"]
  <2>1. /\ jobs[j] = Idle /\ lock = {} /\ jobs' = [jobs EXCEPT ![j] = e] /\ lock' = {j}
        /\ db' = Reconciled(db)
        /\ UNCHANGED <<menu, used, page, form, dialog, disabled, lifted>>
    BY <1>2 DEF TaskFires
  <2>2. e \in JobType /\ e.run = {} /\ e.at = "claim" /\ ~Idle.watched
    BY DEF Idle, JobType
  <2> HIDE DEF e
  <2>3. WorkInv'
    BY <1>1, <2>1, <2>2, JobStep
  <2>4. DbInv' /\ db'.limited = db.limited
    BY <1>1, <2>1, ReconcileStep
  <2> QED BY <2>1, <2>3, <2>4, SessionFrame
<1>3. CASE Enter(j) /\ lock = {}
  <2> DEFINE e == [jobs[j] EXCEPT !.at = "claim"]
  <2>1. /\ lock = {} /\ jobs' = [jobs EXCEPT ![j] = e] /\ lock' = {j} /\ db' = Reconciled(db)
        /\ UNCHANGED <<menu, used, page, form, dialog, disabled, lifted>>
    BY <1>3 DEF Enter
  <2>2. e \in JobType /\ e.run \subseteq used /\ e.at = "claim" /\ e.watched = jobs[j].watched
    BY <1>1 DEF JobType
  <2> HIDE DEF e
  <2>3. WorkInv'
    BY <1>1, <2>1, <2>2, JobStep
  <2>4. DbInv' /\ db'.limited = db.limited
    BY <1>1, <2>1, ReconcileStep
  <2> QED BY <2>1, <2>3, <2>4, SessionFrame
<1>4. CASE Enter(j) /\ lock # {}
  <2>1. /\ jobs[j].at = "start" /\ jobs' = [jobs EXCEPT ![j] = EndOf(j)] /\ lock' = lock /\ db' = db
        /\ UNCHANGED <<menu, used, page, form, dialog, disabled, lifted>>
    BY <1>4 DEF Enter
  <2>2. WorkInv'
    BY <1>1, <2>1, EndOfIs, JobStep
  <2>3. DbInv'
    BY <1>1, <2>1, DbSame
  <2> QED BY <2>1, <2>2, <2>3, SessionFrame
<1> QED BY <1>2, <1>3, <1>4

LEMMA ClaimInv ==
  ASSUME FullInv, NEW j \in Jobs, ClaimRun(j)
  PROVE  FullInv'
<1>1. DbInv /\ WorkInv /\ jobs \in [Jobs -> JobType] /\ jobs[j] \in JobType
  BY DEF FullInv, WorkInv
<1>2. PICK x \in Claimable(j) :
        /\ db' = InState(db, x, "running")
        /\ jobs' = [jobs EXCEPT ![j].at = "run", ![j].run = {x}]
  BY DEF ClaimRun
<1>3. /\ jobs[j].at = "claim"
      /\ UNCHANGED <<menu, used, page, form, dialog, disabled, lock, lifted>>
  BY DEF ClaimRun
<1>4. x \in used /\ x \in Runs
  <2>1. Claimable(j) \subseteq RowsIn(db, {"queued"})
    BY DEF Claimable
  <2>2. RowsIn(db, {"queued"}) \subseteq Rows(db) /\ Rows(db) \subseteq Runs
    BY DEF RowsIn, Rows
  <2> QED BY <1>1, <2>1, <2>2 DEF DbInv
<1>5. DbInv' /\ db'.limited = db.limited
  <2>1. "running" \in RunStates
    BY DEF RunStates, Active
  <2> QED BY <1>1, <1>2, <1>3, <1>4, <2>1, StateStep
<1>6. WorkInv'
  <2> DEFINE e == [jobs[j] EXCEPT !.at = "run", !.run = {x}]
  <2>1. e \in JobType /\ e.run = {x} /\ e.at = "run" /\ e.watched = jobs[j].watched
    BY <1>1, <1>4 DEF JobType
  <2>2. jobs' = [jobs EXCEPT ![j] = e]
    BY <1>1, <1>2
  <2> HIDE DEF e
  <2> QED BY <1>1, <1>3, <1>4, <2>1, <2>2, JobStep
<1> QED BY <1>3, <1>5, <1>6, SessionFrame

LEMMA RunEndsInv ==
  ASSUME FullInv, NEW j \in Jobs, RunEnds(j)
  PROVE  FullInv'
<1>1. DbInv /\ WorkInv /\ jobs \in [Jobs -> JobType] /\ jobs[j] \in JobType /\ jobs[j].run \subseteq used
  BY DEF FullInv, WorkInv
<1>2. jobs[j].at = "run" /\ \E x \in jobs[j].run : db' = InState(db, x, "final")
  BY DEF RunEnds
<1>3. WorkInv' /\ UNCHANGED <<menu, used, page, form, dialog, disabled, lifted>>
  <2>1. CASE jobs[j].kind = "direct"
    <3>1. Leave(j)
      BY <2>1 DEF RunEnds
    <3> QED BY <1>1, <1>2, <3>1, LeaveIs
  <2>2. CASE jobs[j].kind # "direct"
    <3> DEFINE e == [jobs[j] EXCEPT !.at = "claim", !.run = {}]
    <3>1. /\ jobs' = [jobs EXCEPT ![j].at = "claim", ![j].run = {}]
          /\ UNCHANGED <<menu, used, page, form, dialog, disabled, lock, lifted>>
      BY <2>2 DEF RunEnds
    <3>2. e \in JobType /\ e.run = {} /\ e.at = "claim" /\ e.watched = jobs[j].watched
      BY <1>1 DEF JobType
    <3>3. jobs' = [jobs EXCEPT ![j] = e]
      BY <1>1, <3>1
    <3> HIDE DEF e
    <3> QED BY <1>1, <1>2, <3>1, <3>2, <3>3, JobStep
  <2> QED BY <2>1, <2>2
<1>4. DbInv' /\ db'.limited = db.limited
  <2>1. PICK x \in jobs[j].run : db' = InState(db, x, "final")
    BY <1>2
  <2>2. x \in used /\ "final" \in RunStates
    BY <1>1 DEF RunStates
  <2> QED BY <1>1, <1>3, <2>1, <2>2, StateStep
<1> QED BY <1>3, <1>4, SessionFrame

LEMMA SessionInv ==
  ASSUME FullInv, NEW j \in Jobs, TaskFires(j) \/ Session(j) \/ SessionRaises(j)
  PROVE  FullInv'
<1>1. CASE NothingToClaim(j) \/ SessionRaises(j)
  <2>1. jobs[j].at \in {"claim", "run"} /\ Leave(j) /\ db' = db
    BY <1>1 DEF NothingToClaim, SessionRaises
  <2>2. WorkInv' /\ UNCHANGED <<menu, used, page, form, dialog, disabled, lifted>>
    BY <2>1, LeaveIs DEF FullInv
  <2>3. DbInv'
    BY <2>1, <2>2, DbSame DEF FullInv
  <2> QED BY <2>1, <2>2, <2>3, SessionFrame
<1> QED BY <1>1, EnterInv, ClaimInv, RunEndsInv DEF Session
-----------------------------------------------------------------------------
(* The theorems. *)

LEMMA StutterInv == ASSUME FullInv, UNCHANGED vars PROVE FullInv'
<1>1. /\ UNCHANGED <<menu, db, used, page, form, dialog, work, lifted>>
      /\ DbInv /\ PageInv /\ FormInv /\ WorkInv /\ menu \in Menus
  BY DEF vars, FullInv
<1>2. DbInv' /\ PageInv' /\ FormInv' /\ WorkInv'
  BY <1>1, DbSame, PageSame, FormSame, WorkSame
<1> QED BY <1>1, <1>2 DEF FullInv

LEMMA NextInv ==
  ASSUME FullInv, [Next]_vars
  PROVE  FullInv'
<1>1. ASSUME NEW f \in Filters, SetFilter(f) PROVE FullInv'
  <2>1. f \in {All, "queued", "final"}
    BY DEF Filters
  <2> QED BY <1>1, <2>1, FilterInv
<1>2. CASE PrevPage \/ NextPage \/ RefreshClick
  BY <1>2, PagesInv
<1>3. CASE AskAll \/ AskLimits \/ AskImport \/ Dismiss
  BY <1>3, AskInv
<1>4. CASE Confirm
  BY <1>4, ConfirmInv
<1>5. ASSUME NEW x \in Runs, AskRemoveRun(x) \/ Stop(x) PROVE FullInv'
  BY <1>5, AskInv, StopInv
<1>6. ASSUME NEW b \in Robots, AskRemoveRobot(b) \/ Toggle(b) \/ Edit(b) \/ Enqueue(b) \/ Play(b)
      PROVE  FullInv'
  BY <1>6, AskInv, ToggleInv, EditInv, EnqueueInv, PlayInv
<1>7. CASE CancelEdit \/ TypeLimit \/ Save
  BY <1>7, EditInv, SaveInv
<1>8. CASE ConfirmLimits \/ ConfirmImport \/ ExecuteQueue
  BY <1>8, LimitsInv, ImportInv, ExecuteInv
<1>9. ASSUME NEW j \in Jobs,
             TaskFires(j) \/ Session(j) \/ SessionRaises(j) \/ Watch(j) \/ Poll(j) \/ HandlerEnds(j)
      PROVE  FullInv'
  BY <1>9, SessionInv, HandlerInv
<1>10. CASE UNCHANGED vars
  BY <1>10, StutterInv
<1>11. CASE Redraw \/ RedrawFails
  BY <1>11, RedrawInv, RedrawFailsInv
<1> QED BY <1>1, <1>2, <1>3, <1>4, <1>5, <1>6, <1>7, <1>8, <1>9, <1>10, <1>11 DEF Next

LEMMA FullInvHolds == Spec => []FullInv
BY InitInv, NextInv, PTL DEF Spec

\* Whoever holds the installation mutex is a session at work, a job that is over
\* is one whose handler is still to be resumed, and the run button is out of
\* reach only while a handler is there to give it back.
THEOREM PanelInvariant == Spec => []IInv
BY FullInvHolds, FullIsIInv, PTL

\* The page that the history shows exists, whatever was removed, filtered or
\* finished in between, also when refresh() has raised half way; and it shows no
\* row only when there was none to show, unless a session or another process has
\* committed between the two reads of a refresh() that went back to the last page.
THEOREM PageExists == Spec => []PageInRange
<1>1. FullInv => PageInRange
  BY DEF FullInv, PageInv
<1> QED BY <1>1, FullInvHolds, PTL

\* A limit that the operator has removed from every automation, as the page shows,
\* comes back neither with a form that was filled before nor with one filled since.
THEOREM LimitsStay == Spec => LimitsStayLifted
<1>1. FullInv /\ [Next]_vars => [\A b \in db'.limited \ db.limited : b \notin lifted']_vars
  BY NextInv DEF FullInv, FormInv
<1> QED BY <1>1, FullInvHolds, PTL DEF Spec, LimitsStayLifted
=============================================================================
