-------------------------- MODULE CallContextProofs --------------------------
(***************************************************************************)
(* Proofs about the call frames: whatever nested frames do, the failure of *)
(* a running frame restores exactly what it found, and a static call       *)
(* writes nothing, for every number of accounts, depth of calls, amount of *)
(* gas and initial state.                                                  *)
(*                                                                         *)
(* The second half is about accounts that were there before the            *)
(* transaction, and about what the sweep at its end leaves: a contract     *)
(* keeps its code, no storage stays behind without its account, and        *)
(* neither coins nor gas appear.  It adds what every environment that a    *)
(* failure may lead back to has in common.                                 *)
(***************************************************************************)
EXTENDS CallContext, SumTheorems, SequenceTheorems

-----------------------------------------------------------------------------
\* The journalled sets.

\* The journal lists the members of the map, each once.
Sound(s) ==
  /\ s \in Journalled
  /\ s.map = {s.journal[i] : i \in 1..Len(s.journal)}
  /\ \A i, j \in 1..Len(s.journal) : s.journal[i] = s.journal[j] => i = j

\* t is s with further insertions.
Grows(s, t) ==
  /\ Sound(s) /\ Sound(t)
  /\ Len(s.journal) <= Len(t.journal)
  /\ \A i \in 1..Len(s.journal) : t.journal[i] = s.journal[i]

LogGrows(k, l) ==
  /\ k \in Seq(Address) /\ l \in Seq(Address)
  /\ Len(k) <= Len(l)
  /\ \A i \in 1..Len(k) : l[i] = k[i]

\* Insertions compose.
LEMMA GrowsTransitive ==
  ASSUME NEW s, NEW t, NEW u, Grows(s, t), Grows(t, u) PROVE Grows(s, u)
<1>1. Len(s.journal) \in Nat /\ Len(t.journal) \in Nat /\ Len(u.journal) \in Nat
  BY DEF Grows, Sound, Journalled
<1> QED
  BY <1>1 DEF Grows

\* Appended logs compose.
LEMMA LogGrowsTransitive ==
  ASSUME NEW k, NEW l, NEW m, LogGrows(k, l), LogGrows(l, m) PROVE LogGrows(k, m)
<1>1. Len(k) \in Nat /\ Len(l) \in Nat /\ Len(m) \in Nat
  BY DEF LogGrows
<1> QED
  BY <1>1 DEF LogGrows

\* touch, markCreated and markSuicided keep map and journal in agreement.
LEMMA MarkGrows ==
  ASSUME NEW s, Sound(s), NEW a \in Address PROVE Grows(s, Mark(s, a))
<1> DEFINE n == Len(s.journal)
<1>0. s.map \in SUBSET Address /\ s.journal \in Seq(Address) /\ n \in Nat
  BY DEF Sound, Journalled
<1>1. CASE a \in s.map
  BY <1>0, <1>1 DEF Mark, Grows
<1>2. CASE a \notin s.map
  <2> DEFINE j == Append(s.journal, a)
             t == [map |-> s.map \cup {a}, journal |-> j]
  <2>1. Mark(s, a) = t /\ t.journal = j /\ t.map = s.map \cup {a}
    BY <1>2 DEF Mark
  <2>2. /\ j \in Seq(Address) /\ Len(j) = n + 1 /\ j[n + 1] = a
        /\ \A i \in 1..n : j[i] = s.journal[i]
    BY <1>0
  <2>3. t \in Journalled
    BY <1>0, <2>2 DEF Journalled
  <2> HIDE DEF j, t, n
  <2>4. t.map = {j[i] : i \in 1..(n + 1)}
    <3>1. s.map = {s.journal[i] : i \in 1..n}
      BY DEF Sound, n
    <3>2. \A x : x \in {j[i] : i \in 1..(n + 1)} <=> (x = a \/ x \in {s.journal[i] : i \in 1..n})
      BY <1>0, <2>2
    <3> QED
      BY <2>1, <3>1, <3>2
  <2>5. ASSUME NEW i \in 1..(n + 1), NEW k \in 1..(n + 1), j[i] = j[k] PROVE i = k
    <3>1. \A m \in 1..n : s.journal[m] \in s.map
      BY DEF Sound, n
    <3>2. \A m \in 1..n : j[m] # a
      BY <1>2, <2>2, <3>1
    <3>3. i = n + 1 <=> k = n + 1
      BY <1>0, <2>2, <2>5, <3>2
    <3>4. CASE i \in 1..n /\ k \in 1..n
      BY <2>2, <2>5, <3>4 DEF Sound, n
    <3> QED
      BY <1>0, <3>3, <3>4
  <2>6. Sound(t)
    <3>1. Len(t.journal) = n + 1 /\ t.journal = j
      BY <2>1, <2>2
    <3>2. \A i, k \in 1..(n + 1) : j[i] = j[k] => i = k
      BY <2>5
    <3>3. t.map = {t.journal[i] : i \in 1..Len(t.journal)}
      BY <2>4, <3>1
    <3>4. \A i, k \in 1..Len(t.journal) : t.journal[i] = t.journal[k] => i = k
      BY <3>1, <3>2
    <3> QED
      BY <2>3, <3>3, <3>4, Zenon DEF Sound
  <2>7. /\ Len(s.journal) <= Len(t.journal)
        /\ \A i \in 1..Len(s.journal) : t.journal[i] = s.journal[i]
    BY <1>0, <2>1, <2>2 DEF n
  <2> QED
    BY <2>1, <2>6, <2>7, Zenon DEF Grows
<1> QED
  BY <1>1, <1>2

\* revertTouched and its like: a rollback to the mark taken in s gives s back.
LEMMA RollbackGivesBack ==
  ASSUME NEW s, NEW t, Grows(s, t) PROVE Rollback(t, Len(s.journal)) = s
<1> DEFINE n == Len(s.journal)
           k == Len(t.journal)
           cut == SubSeq(t.journal, 1, n)
<1>1. /\ s \in Journalled /\ t \in Journalled /\ n \in Nat /\ k \in Nat /\ n <= k
      /\ s.journal \in Seq(Address) /\ t.journal \in Seq(Address)
      /\ \A i \in 1..n : t.journal[i] = s.journal[i]
  BY DEF Grows, Sound, Journalled
<1>2. cut = s.journal
  <2>1. cut \in Seq(Address) /\ Len(cut) = n /\ \A i \in 1..n : cut[i] = t.journal[i]
    BY <1>1
  <2> QED
    BY <1>1, <2>1
<1>3. t.map \ {t.journal[i] : i \in (n + 1)..k} = s.map
  <2>1. t.map = {t.journal[i] : i \in 1..k} /\ s.map = {s.journal[i] : i \in 1..n}
    BY DEF Grows, Sound
  <2>2. \A i, j \in 1..k : t.journal[i] = t.journal[j] => i = j
    BY DEF Grows, Sound
  <2> HIDE DEF n, k, cut
  <2>3. \A x : x \in s.map => x \in t.map /\ x \notin {t.journal[i] : i \in (n + 1)..k}
    <3> SUFFICES ASSUME NEW i \in 1..n
                 PROVE  /\ s.journal[i] \in t.map
                        /\ \A j \in (n + 1)..k : s.journal[i] # t.journal[j]
      BY <2>1
    <3>1. i \in 1..k /\ s.journal[i] = t.journal[i]
      BY <1>1
    <3>2. \A j \in (n + 1)..k : j \in 1..k /\ i # j
      BY <1>1
    <3> QED
      BY <2>1, <2>2, <3>1, <3>2
  <2>4. \A x : x \in t.map /\ x \notin {t.journal[i] : i \in (n + 1)..k} => x \in s.map
    <3> SUFFICES ASSUME NEW i \in 1..k, t.journal[i] \notin {t.journal[j] : j \in (n + 1)..k}
                 PROVE  t.journal[i] \in s.map
      BY <2>1
    <3>1. i \notin (n + 1)..k
      OBVIOUS
    <3>2. i \in 1..n
      BY <1>1, <3>1
    <3> QED
      BY <1>1, <2>1, <3>2
  <2> QED
    BY <2>3, <2>4
<1>4. s = [map |-> s.map, journal |-> s.journal]
  BY <1>1 DEF Journalled
<1> QED
  BY <1>2, <1>3, <1>4, Zenon DEF Rollback

-----------------------------------------------------------------------------
\* Environments.

\* f is what e may become before a frame that was entered with e ends.
Later(e, f) ==
  /\ e \in Envs /\ f \in Envs
  /\ LogGrows(e.logs, f.logs)
  /\ Grows(e.touched, f.touched)
  /\ Grows(e.created, f.created)
  /\ Grows(e.suicided, f.suicided)

\* The marks m were taken in e, and lead back to it from now and snaps.
Held(m, e, snaps, now) ==
  /\ m.rev \in Nat /\ m.rev < Len(snaps) /\ snaps[m.rev + 1] = e.world
  /\ m.logs = Len(e.logs)
  /\ m.touched = Len(e.touched.journal)
  /\ m.created = Len(e.created.journal)
  /\ m.suicided = Len(e.suicided.journal)
  /\ Later(e, now)

\* Stages of an environment compose.
LEMMA LaterTransitive ==
  ASSUME NEW e, NEW f, NEW g, Later(e, f), Later(f, g) PROVE Later(e, g)
BY GrowsTransitive, LogGrowsTransitive, Zenon DEF Later

\* Every stage is one of itself.
LEMMA LaterReflexive ==
  ASSUME NEW e, NEW f, Later(e, f) PROVE Later(e, e) /\ Later(f, f)
<1>1. \A s, t : Grows(s, t) => Grows(s, s) /\ Grows(t, t)
  BY DEF Grows, Sound, Journalled
<1>2. \A k, l : LogGrows(k, l) => LogGrows(k, k) /\ LogGrows(l, l)
  BY DEF LogGrows
<1> QED
  BY <1>1, <1>2, Zenon DEF Later

\* Only the state changed.
LEMMA LaterWorld ==
  ASSUME NEW e, NEW f, Later(e, f), NEW w \in Worlds PROVE Later(e, [f EXCEPT !.world = w])
<1> DEFINE g == [f EXCEPT !.world = w]
<1>1. /\ g \in Envs /\ g.logs = f.logs /\ g.touched = f.touched
      /\ g.created = f.created /\ g.suicided = f.suicided
  BY DEF Later, Envs
<1> HIDE DEF g
<1>2. Later(e, g)
  BY <1>1 DEF Later
<1> QED
  BY <1>2 DEF g

\* A mark taken now leads back to now, through all that follows.
LEMMA MarksHold ==
  ASSUME NEW e, NEW f, Later(e, f), NEW snaps \in Seq(Worlds)
  PROVE  Held(Marks(e, snaps), e, Append(snaps, e.world), f) /\ Marks(e, snaps) \in MarkSet
<1> DEFINE m == Marks(e, snaps)
<1>1. /\ m.rev = Len(snaps) /\ m.logs = Len(e.logs) /\ m.touched = Len(e.touched.journal)
      /\ m.created = Len(e.created.journal) /\ m.suicided = Len(e.suicided.journal)
  BY DEF Marks
<1>2. /\ e.logs \in Seq(Address) /\ e.touched.journal \in Seq(Address) /\ e.world \in Worlds
      /\ e.created.journal \in Seq(Address) /\ e.suicided.journal \in Seq(Address)
  BY DEF Later, Envs, Journalled
<1>3. m \in MarkSet
  BY <1>2, SMTT(30) DEF MarkSet, Marks
<1>4. /\ Len(snaps) \in Nat /\ Len(Append(snaps, e.world)) = Len(snaps) + 1
      /\ Append(snaps, e.world)[Len(snaps) + 1] = e.world
  BY <1>2
<1> HIDE DEF m
<1>5. Held(m, e, Append(snaps, e.world), f)
  BY <1>1, <1>4 DEF Held
<1> QED
  BY <1>3, <1>5 DEF m

\* Marks go on holding when the environment moves on and snapshots are added, or
\* removed above them.
LEMMA HeldLater ==
  ASSUME NEW m, NEW e, NEW snaps, NEW now, NEW snaps2, NEW now2,
         Held(m, e, snaps, now), Later(e, now2), m.rev < Len(snaps2),
         snaps2[m.rev + 1] = snaps[m.rev + 1]
  PROVE  Held(m, e, snaps2, now2)
BY DEF Held

\* The failure of a frame restores what its marks were taken in.
LEMMA HeldRestores ==
  ASSUME NEW m, NEW e, NEW snaps, NEW now, Held(m, e, snaps, now)
  PROVE  Restored(now, snaps, m) = e
<1>1. /\ Rollback(now.touched, m.touched) = e.touched
      /\ Rollback(now.created, m.created) = e.created
      /\ Rollback(now.suicided, m.suicided) = e.suicided
  BY RollbackGivesBack, Zenon DEF Held, Later
<1>2. SubSeq(now.logs, 1, m.logs) = e.logs
  <2> DEFINE k == e.logs
             l == now.logs
  <2>1. LogGrows(k, l) /\ m.logs = Len(k)
    BY DEF Held, Later
  <2> HIDE DEF k, l
  <2>2. /\ SubSeq(l, 1, Len(k)) \in Seq(Address) /\ Len(SubSeq(l, 1, Len(k))) = Len(k)
        /\ \A i \in 1..Len(k) : SubSeq(l, 1, Len(k))[i] = k[i]
    BY <2>1 DEF LogGrows
  <2>3. SubSeq(l, 1, Len(k)) = k
    BY <2>1, <2>2 DEF LogGrows
  <2> QED
    BY <2>1, <2>3 DEF k, l
<1>3. snaps[m.rev + 1] = e.world
  BY DEF Held
<1>4. e = [world |-> e.world, logs |-> e.logs, touched |-> e.touched,
           created |-> e.created, suicided |-> e.suicided]
  BY DEF Held, Later, Envs
<1> QED
  BY <1>1, <1>2, <1>3, <1>4, Zenon DEF Restored

-----------------------------------------------------------------------------
\* What the opcodes do to the state and to the environment.

\* An account reads as an account, absent or not.
LEMMA AccountTyped ==
  ASSUME NEW w \in Worlds, NEW a \in Address PROVE account(w, a) \in Account
BY DEF account, Worlds, Account

\* Writing an account keeps the state a state.
LEMMA SetAccTyped ==
  ASSUME NEW w \in Worlds, NEW a \in Address, NEW acc \in Account
  PROVE  /\ setAcc(w, a, acc) \in Worlds
         /\ setAcc(w, a, acc).slot = w.slot
BY DEF setAcc, Worlds

\* So do a nonce, a code and a balance.
LEMMA SettersTyped ==
  ASSUME NEW w \in Worlds, NEW a \in Address
  PROVE  /\ setNonce(w, a) \in Worlds
         /\ \A code \in BOOLEAN : setCode(w, a, code) \in Worlds
         /\ \A bal \in Nat : setBalance(w, a, bal) \in Worlds
<1> DEFINE acc == account(w, a)
<1>1. acc \in Account
  BY AccountTyped
<1> HIDE DEF acc
<1>2. /\ [acc EXCEPT !.nonce = TRUE] \in Account
      /\ \A code \in BOOLEAN : [acc EXCEPT !.code = code] \in Account
      /\ \A bal \in Nat : [acc EXCEPT !.balance = bal] \in Account
  BY <1>1 DEF Account
<1> QED
  BY <1>2, SetAccTyped DEF setNonce, setCode, setBalance, acc

\* So does a deletion.
LEMMA DeleteTyped ==
  ASSUME NEW w \in Worlds, NEW A PROVE Delete(w, A) \in Worlds
BY DEF Delete, Worlds

\* And a transfer the sender can pay.
LEMMA MovedTyped ==
  ASSUME NEW w \in Worlds, NEW from \in Address, NEW to \in Address, NEW v \in Nat,
         v = 0 \/ v <= account(w, from).balance
  PROVE  Moved(w, from, to, v) \in Worlds
<1>1. CASE v = 0
  BY <1>1 DEF Moved
<1>2. CASE v # 0
  <2> DEFINE left == account(w, from).balance - v
             paid == setBalance(w, from, left)
             sum == account(paid, to).balance + v
  <2>1. left \in Nat
    BY <1>2, AccountTyped DEF Account
  <2> HIDE DEF left
  <2>2. paid \in Worlds
    BY <2>1, SettersTyped
  <2> HIDE DEF paid
  <2>3. sum \in Nat
    BY <2>2, AccountTyped DEF Account
  <2> HIDE DEF sum
  <2>4. setBalance(paid, to, sum) \in Worlds
    BY <2>2, <2>3, SettersTyped
  <2> QED
    BY <1>2, <2>4 DEF Moved, paid, left, sum
<1> QED
  BY <1>1, <1>2

\* Touching two accounts.
LEMMA TouchLater ==
  ASSUME NEW e, Later(e, e), NEW a \in Address, NEW b \in Address
  PROVE  Later(e, Touch(e, a, b)) /\ Touch(e, a, b).world = e.world
<1> DEFINE t == Mark(Mark(e.touched, a), b)
           f == [e EXCEPT !.touched = t]
<1>1. Grows(e.touched, t)
  <2>1. Grows(e.touched, Mark(e.touched, a)) /\ Sound(Mark(e.touched, a))
    BY MarkGrows DEF Later, Grows
  <2>2. Grows(Mark(e.touched, a), t)
    BY <2>1, MarkGrows
  <2> QED
    BY <2>1, <2>2, GrowsTransitive
<1>2. t \in Journalled
  BY <1>1 DEF Grows, Sound
<1> HIDE DEF t
<1>3. /\ f \in Envs /\ f.logs = e.logs /\ f.touched = t /\ f.world = e.world
      /\ f.created = e.created /\ f.suicided = e.suicided
  BY <1>2 DEF Later, Envs
<1> HIDE DEF f
<1>4. Later(e, f)
  BY <1>1, <1>3 DEF Later
<1> QED
  BY <1>3, <1>4 DEF Touch, f, t

\* Marking an account created, or destroyed.
LEMMA CreatedLater ==
  ASSUME NEW e, NEW f, Later(e, f), NEW a \in Address
  PROVE  /\ Later(e, [f EXCEPT !.created = Mark(f.created, a)])
         /\ Later(e, [f EXCEPT !.suicided = Mark(f.suicided, a)])
<1> DEFINE c == Mark(f.created, a)
           d == Mark(f.suicided, a)
           g == [f EXCEPT !.created = c]
           h == [f EXCEPT !.suicided = d]
<1>1. Grows(f.created, c) /\ Grows(f.suicided, d)
  BY MarkGrows DEF Later, Grows
<1>2. c \in Journalled /\ d \in Journalled
  BY <1>1 DEF Grows, Sound
<1>3. Grows(e.created, c) /\ Grows(e.suicided, d)
  BY <1>1, GrowsTransitive DEF Later
<1> HIDE DEF c, d
<1>4. /\ g \in Envs /\ g.logs = f.logs /\ g.touched = f.touched
      /\ g.created = c /\ g.suicided = f.suicided
  BY <1>2 DEF Later, Envs
<1>5. /\ h \in Envs /\ h.logs = f.logs /\ h.touched = f.touched
      /\ h.created = f.created /\ h.suicided = d
  BY <1>2 DEF Later, Envs
<1> HIDE DEF g, h
<1>6. Later(e, g)
  BY <1>3, <1>4 DEF Later
<1>7. Later(e, h)
  BY <1>3, <1>5 DEF Later
<1> QED
  BY <1>6, <1>7 DEF g, h, c, d

\* A transfer the sender can pay.
LEMMA TransferLater ==
  ASSUME NEW e, Later(e, e), NEW from \in Address, NEW to \in Address, NEW v \in Nat,
         v = 0 \/ v <= account(e.world, from).balance
  PROVE  /\ Later(e, transfer(e, from, to, v))
         /\ transfer(e, from, to, v).world = Moved(e.world, from, to, v)
<1> DEFINE w == Moved(e.world, from, to, v)
           t == Touch(e, from, to)
<1>1. w \in Worlds
  BY MovedTyped DEF Later, Envs
<1>2. Later(e, t) /\ t \in Envs
  BY TouchLater DEF Later
<1> HIDE DEF w, t
<1>3. Later(e, [t EXCEPT !.world = w]) /\ [t EXCEPT !.world = w].world = w
  BY <1>1, <1>2, LaterWorld DEF Envs
<1> QED
  BY <1>3 DEF transfer, w, t

\* run's first lines write no state.
LEMMA PrologueLater ==
  ASSUME NEW e, Later(e, e), NEW p \in Params
  PROVE  Later(e, Prologue(e, p)) /\ Prologue(e, p).world = e.world
<1> DEFINE t == Touch(e, p.caller, p.addr)
<1>1. p.caller \in Address /\ p.addr \in Address
  BY DEF Params
<1>2. Later(e, t) /\ t.world = e.world /\ t.created = e.created
  BY <1>1, TouchLater DEF Touch, Later, Envs
<1> HIDE DEF t
<1>3. CASE p.kind = "create"
  <2>1. Later(e, [t EXCEPT !.created = Mark(t.created, p.addr)])
    BY <1>1, <1>2, CreatedLater
  <2>2. [t EXCEPT !.created = Mark(t.created, p.addr)].world = e.world
    BY <1>2 DEF Later, Envs
  <2> QED
    BY <1>2, <1>3, <2>1, <2>2 DEF Prologue, t
<1>4. CASE p.kind # "create"
  BY <1>2, <1>4 DEF Prologue, t
<1> QED
  BY <1>3, <1>4

\* Entering a frame: its prologue, and its transfer when it makes one.
LEMMA EnteredLater ==
  ASSUME NEW e, Later(e, e), NEW p \in Params, p.kind = "delegate" \/ Pays(e, p)
  PROVE  /\ Later(e, Entered(e, p))
         /\ p.kind = "delegate" \/ p.val = 0 => Entered(e, p).world = e.world
<1> DEFINE f == Prologue(e, p)
<1>1. Later(e, f) /\ f.world = e.world
  BY PrologueLater
<1>2. p.caller \in Address /\ p.addr \in Address /\ p.val \in Nat
  BY DEF Params
<1>3. CASE p.kind = "delegate"
  BY <1>1, <1>3 DEF Entered
<1>4. CASE p.kind # "delegate"
  <2>1. p.val = 0 \/ p.val <= account(f.world, p.caller).balance
    BY <1>1, <1>4 DEF Pays
  <2>2. Later(f, f)
    BY <1>1, LaterReflexive
  <2> HIDE DEF f
  <2>3. /\ Later(f, transfer(f, p.caller, p.addr, p.val))
        /\ transfer(f, p.caller, p.addr, p.val).world = Moved(f.world, p.caller, p.addr, p.val)
    BY <1>2, <2>1, <2>2, TransferLater
  <2>4. Later(e, transfer(f, p.caller, p.addr, p.val))
    BY <1>1, <2>3, LaterTransitive
  <2> QED
    BY <1>1, <1>4, <2>3, <2>4 DEF Entered, Moved, f
<1> QED
  BY <1>3, <1>4

\* Nothing but the touched accounts differs.
Same(e, f) ==
  /\ e.world = f.world /\ e.logs = f.logs
  /\ e.created = f.created /\ e.suicided = f.suicided

\* A frame that is entered without a value and creates nothing.
Silent(p) == p.kind = "delegate" \/ (p.kind = "call" /\ p.val = 0)

\* Entering such a frame writes nothing.
LEMMA EnteredSame ==
  ASSUME NEW e, Later(e, e), NEW p \in Params, Silent(p)
  PROVE  Same(e, Entered(e, p))
<1>1. e \in Envs
  BY DEF Later
<1>2. \A f \in Envs : \A a, b : LET t == Touch(f, a, b) IN
        t.world = f.world /\ t.logs = f.logs /\ t.created = f.created /\ t.suicided = f.suicided
  BY DEF Touch, Envs
<1>3. Prologue(e, p) = Touch(e, p.caller, p.addr)
  BY DEF Prologue, Silent
<1>4. Prologue(e, p) \in Envs /\ Same(e, Prologue(e, p))
  BY <1>1, <1>2, <1>3, PrologueLater DEF Later, Same
<1>5. CASE p.kind = "delegate"
  BY <1>4, <1>5 DEF Entered
<1>6. CASE p.kind = "call" /\ p.val = 0
  <2> DEFINE f == Prologue(e, p)
             t == Touch(f, p.caller, p.addr)
  <2>1. Later(f, f)
    BY PrologueLater, LaterReflexive
  <2>2. t \in Envs
    BY <2>1, TouchLater DEF Later, Params
  <2>3. Same(f, t)
    BY <1>2, <1>4 DEF Same
  <2> HIDE DEF f, t
  <2>4. Same(t, [t EXCEPT !.world = f.world])
    BY <2>2, <2>3 DEF Envs, Same
  <2>5. Entered(e, p) = [t EXCEPT !.world = f.world]
    BY <1>6 DEF Entered, transfer, Moved, f, t
  <2> QED
    BY <1>4, <2>3, <2>4, <2>5 DEF Same, f
<1> QED
  BY <1>5, <1>6 DEF Silent

-----------------------------------------------------------------------------
\* What run may do, in the terms of the proof.

\* run answers at once, or enters the frame of p.
LEMMA RunOutcome ==
  ASSUME NEW e, Later(e, e), NEW snaps \in Seq(Worlds), NEW under, NEW p \in Params,
         Run(e, snaps, under, p)
  PROVE  /\ Later(e, env')
         /\ Silent(p) => Same(e, env')
         /\ \/ /\ saved' = snaps \/ saved' = Append(snaps, e.world)
               /\ \E left \in Nat, ok \in BOOLEAN : Answer(under, left, ok)
            \/ /\ saved' = Append(snaps, e.world)
               /\ frames' = Append(under, [p |-> p, gas |-> p.gas, marks |-> Marks(e, snaps)])
               /\ entry' = Append(SubSeq(entry, 1, Len(under)), e)
               /\ phase' = "running"
               /\ UNCHANGED result
<1>0. p.gas \in Nat
  BY DEF Params
<1>u. ASSUME NEW left \in Nat, RunUndone(e, snaps, under, p, left)
      PROVE  env' = e /\ saved' = snaps /\ Answer(under, left, FALSE)
  <2>1. Later(e, Prologue(e, p))
    BY PrologueLater
  <2>2. Held(Marks(e, snaps), e, Append(snaps, e.world), Prologue(e, p))
    BY <2>1, MarksHold
  <2>3. Restored(Prologue(e, p), Append(snaps, e.world), Marks(e, snaps)) = e
    BY <2>2, HeldRestores
  <2> QED
    BY <1>u, <2>3 DEF RunUndone
<1>s. Same(e, e)
  BY DEF Same
<1>1. CASE Len(under) >= MaxDepth
  <2>1. env' = e /\ saved' = snaps /\ Answer(under, p.gas, FALSE)
    BY <1>1, Zenon DEF Run
  <2> QED
    BY <1>0, <1>s, <2>1, Zenon
<1>2. CASE ~(Len(under) >= MaxDepth) /\ p.kind # "delegate" /\ ~Pays(e, p)
  <2>1. RunUndone(e, snaps, under, p, p.gas)
    BY <1>2, Zenon DEF Run
  <2>2. env' = e /\ saved' = snaps /\ Answer(under, p.gas, FALSE)
    BY <2>1, <1>0, <1>u
  <2> QED
    BY <1>0, <1>s, <2>2, Zenon
<1>3. CASE ~(Len(under) >= MaxDepth) /\ ~(p.kind # "delegate" /\ ~Pays(e, p))
  <2>0. Later(e, Entered(e, p)) /\ (Silent(p) => Same(e, Entered(e, p)))
    BY <1>3, EnteredLater, EnteredSame
  <2>d. ASSUME NEW left \in Nat, RunDone(e, snaps, under, p, left)
        PROVE  env' = Entered(e, p) /\ saved' = Append(snaps, e.world) /\ Answer(under, left, TRUE)
    BY <2>d DEF RunDone
  <2>1. \/ RunUndone(e, snaps, under, p, 0)
        \/ \E left \in 0..p.gas : RunDone(e, snaps, under, p, left)
        \/ RunDone(e, snaps, under, p, p.gas)
        \/ /\ env' = Entered(e, p) /\ saved' = Append(snaps, e.world)
           /\ frames' = Append(under, [p |-> p, gas |-> p.gas, marks |-> Marks(e, snaps)])
           /\ entry' = Append(SubSeq(entry, 1, Len(under)), e)
           /\ phase' = "running"
           /\ UNCHANGED result
    BY <1>3, Zenon DEF Run
  <2>2. CASE RunUndone(e, snaps, under, p, 0)
    <3>1. env' = e /\ saved' = snaps /\ Answer(under, 0, FALSE) /\ 0 \in Nat
      BY <2>2, <1>u
    <3> QED
      BY <1>s, <3>1, Zenon
  <2>3. ASSUME NEW left \in Nat, RunDone(e, snaps, under, p, left)
        PROVE  /\ Later(e, env')
               /\ Silent(p) => Same(e, env')
               /\ saved' = Append(snaps, e.world)
               /\ \E l \in Nat, ok \in BOOLEAN : Answer(under, l, ok)
    BY <2>0, <2>3, <2>d, Zenon
  <2>4. \A left \in 0..p.gas : left \in Nat
    BY <1>0
  <2> QED
    BY <1>0, <2>0, <2>1, <2>2, <2>3, <2>4, Zenon
<1> QED
  BY <1>1, <1>2, <1>3

-----------------------------------------------------------------------------
\* The inductive invariant.  Level 0 is the transaction, level i its i-th frame.
Levels == IF phase \in {"running", "ran"} THEN 0..Len(frames) ELSE {}
MarksAt(i) == IF i = 0 THEN base ELSE frames[i].marks
EntryAt(i) == IF i = 0 THEN begun ELSE entry[i]

Shape ==
  /\ Len(entry) = Len(frames)
  /\ phase = "running" <=> frames # <<>>
  /\ Later(env, env)

\* Every level's marks lead back to what it was entered with, from where we are
\* and from where every level above it was entered.
AllHeld ==
  /\ \A i \in Levels : Held(MarksAt(i), EntryAt(i), saved, env)
  /\ \A i, j \in Levels : i < j => /\ Later(EntryAt(i), EntryAt(j))
                                   /\ MarksAt(i).rev < MarksAt(j).rev

\* What is called by a read-only frame is read-only, and was entered with nothing
\* written.
ReadOnly ==
  /\ \A i \in 1..Len(frames) : frames[i].p.ro => Same(entry[i], env)
  /\ \A i, j \in 1..Len(frames) : i < j /\ frames[i].p.ro =>
       frames[j].p.ro /\ Same(entry[i], entry[j])
  /\ \A i \in 1..Len(frames) : frames[i].p.ro => frames[i].p.kind # "create"

FrameInv == TypeOK /\ Shape /\ AllHeld /\ ReadOnly

\* The frames below the innermost stay, the innermost may go: what is left is
\* held as before if it is held from the new environment and snapshots.
LEMMA CutKeeps ==
  ASSUME FrameInv, phase = "running", NEW n \in 0..Len(frames),
         phase' = IF n = 0 THEN "ran" ELSE "running",
         frames' \in Seq(Frames), Len(frames') = n,
         \A i \in 1..n : frames'[i].marks = frames[i].marks /\ frames'[i].p = frames[i].p,
         entry' = SubSeq(entry, 1, n), base' = base, begun' = begun,
         result' \in [ok : BOOLEAN, left : Nat],
         saved' \in Seq(Worlds), Later(env', env'),
         \A i \in 0..n : /\ Later(EntryAt(i), env')
                         /\ MarksAt(i).rev < Len(saved')
                         /\ saved'[MarksAt(i).rev + 1] = saved[MarksAt(i).rev + 1],
         \A i \in 1..n : frames[i].p.ro => Same(entry[i], env')
  PROVE  FrameInv'
<1>0. /\ entry \in Seq(Envs) /\ frames \in Seq(Frames) /\ Len(entry) = Len(frames)
      /\ Len(frames) \in Nat /\ n \in Nat /\ n <= Len(frames) /\ begun \in Envs
  BY DEF FrameInv, TypeOK, Shape
<1>1. /\ entry' \in Seq(Envs) /\ Len(entry') = n /\ \A i \in 1..n : entry'[i] = entry[i]
  BY <1>0
<1>2. TypeOK'
  <2>1. env' \in Envs /\ begun' \in Envs
    BY <1>0 DEF Later
  <2>2. base' \in MarkSet /\ phase' \in {"ready", "running", "ran", "swept"}
    BY DEF FrameInv, TypeOK
  <2> QED
    BY <1>1, <2>1, <2>2 DEF TypeOK
<1>3. Shape'
  <2>1. Len(frames') = 0 <=> frames' = <<>>
    OBVIOUS
  <2> QED
    BY <1>0, <1>1, <2>1 DEF Shape
<1>4. Levels' = 0..n /\ Levels = 0..Len(frames)
  BY DEF Levels
<1>5. \A i \in 0..n : i \in Levels /\ MarksAt(i)' = MarksAt(i) /\ EntryAt(i)' = EntryAt(i)
  BY <1>0, <1>1, <1>4 DEF MarksAt, EntryAt
<1>6. AllHeld'
  <2>1. ASSUME NEW i \in 0..n PROVE Held(MarksAt(i), EntryAt(i), saved', env')
    <3>1. Held(MarksAt(i), EntryAt(i), saved, env)
      BY <1>5 DEF FrameInv, AllHeld
    <3> QED
      BY <3>1, HeldLater
  <2>2. ASSUME NEW i \in 0..n, NEW j \in 0..n, i < j
        PROVE  Later(EntryAt(i), EntryAt(j)) /\ MarksAt(i).rev < MarksAt(j).rev
    BY <1>5, <2>2 DEF FrameInv, AllHeld
  <2>3. ASSUME NEW i \in Levels' PROVE Held(MarksAt(i), EntryAt(i), saved, env)'
    BY <1>4, <1>5, <2>1
  <2>4. ASSUME NEW i \in Levels', NEW j \in Levels', i < j
        PROVE  (Later(EntryAt(i), EntryAt(j)) /\ MarksAt(i).rev < MarksAt(j).rev)'
    BY <1>4, <1>5, <2>2, <2>4
  <2> QED
    BY <2>3, <2>4 DEF AllHeld
<1>7. ReadOnly'
  <2>1. \A i \in 1..n : i \in 1..Len(frames)
    BY <1>0
  <2>2. \A i \in 1..n : frames'[i].p.ro => Same(entry'[i], env')
    BY <1>1
  <2>3. \A i, j \in 1..n : i < j /\ frames'[i].p.ro =>
          frames'[j].p.ro /\ Same(entry'[i], entry'[j])
    BY <1>1, <2>1 DEF FrameInv, ReadOnly
  <2>4. \A i \in 1..n : frames'[i].p.ro => frames'[i].p.kind # "create"
    BY <2>1 DEF FrameInv, ReadOnly
  <2> QED
    BY <2>2, <2>3, <2>4 DEF ReadOnly
<1> QED
  BY <1>2, <1>3, <1>6, <1>7 DEF FrameInv

\* The environment moved on, and the stack of snapshots did not shrink.
LEMMA AdvanceKeeps ==
  ASSUME FrameInv, phase = "running", NEW n \in 0..Len(frames),
         phase' = IF n = 0 THEN "ran" ELSE "running",
         frames' \in Seq(Frames), Len(frames') = n,
         \A i \in 1..n : frames'[i].marks = frames[i].marks /\ frames'[i].p = frames[i].p,
         entry' = SubSeq(entry, 1, n), base' = base, begun' = begun,
         result' \in [ok : BOOLEAN, left : Nat],
         Later(env, env'), frames[Len(frames)].p.ro => Same(env, env'),
         saved' = saved \/ \E w \in Worlds : saved' = Append(saved, w)
  PROVE  FrameInv'
<1>0. saved \in Seq(Worlds) /\ Len(frames) \in Nat /\ frames # <<>> /\ Levels = 0..Len(frames)
  BY DEF FrameInv, TypeOK, Shape, Levels
<1>1. /\ saved' \in Seq(Worlds) /\ Len(saved) \in Nat /\ Len(saved') >= Len(saved)
      /\ \A k \in 1..Len(saved) : saved'[k] = saved[k]
  <2>1. CASE saved' = saved
    BY <1>0, <2>1
  <2>2. ASSUME NEW w \in Worlds, saved' = Append(saved, w)
        PROVE  /\ saved' \in Seq(Worlds) /\ Len(saved') = Len(saved) + 1
               /\ \A k \in 1..Len(saved) : saved'[k] = saved[k]
    BY <1>0, <2>2
  <2>3. Len(saved) \in Nat
    BY <1>0
  <2> QED
    BY <2>1, <2>2, <2>3
<1>2. ASSUME NEW i \in 0..n
      PROVE  /\ Later(EntryAt(i), env')
             /\ MarksAt(i).rev < Len(saved')
             /\ saved'[MarksAt(i).rev + 1] = saved[MarksAt(i).rev + 1]
  <2>1. Held(MarksAt(i), EntryAt(i), saved, env)
    BY <1>0 DEF FrameInv, AllHeld
  <2>2. Later(EntryAt(i), env')
    BY <2>1, LaterTransitive DEF Held
  <2>3. MarksAt(i).rev \in Nat /\ MarksAt(i).rev < Len(saved)
    BY <2>1 DEF Held
  <2> HIDE DEF MarksAt
  <2>4. MarksAt(i).rev + 1 \in 1..Len(saved)
    BY <1>1, <2>3
  <2> QED
    BY <1>1, <2>2, <2>3, <2>4
<1>3. \A i \in 1..n : frames[i].p.ro => Same(entry[i], env')
  <2> TAKE i \in 1..n
  <2> HAVE frames[i].p.ro
  <2>0. i \in 1..Len(frames) /\ Len(frames) \in 1..Len(frames) /\ ReadOnly
    BY <1>0 DEF FrameInv, TypeOK
  <2>1. frames[Len(frames)].p.ro
    BY <2>0 DEF ReadOnly
  <2>2. Same(entry[i], env) /\ Same(env, env')
    BY <2>0, <2>1 DEF ReadOnly
  <2> QED
    BY <2>2 DEF Same
<1>4. Later(env', env')
  BY LaterReflexive
<1> QED
  BY <1>1, <1>2, <1>3, <1>4, CutKeeps

\* The frames under are the running ones, the last of which has spent gas.
Spent(under) ==
  /\ under \in Seq(Frames) /\ Len(under) = Len(frames)
  /\ \A i \in 1..Len(frames) : under[i].marks = frames[i].marks /\ under[i].p = frames[i].p

\* run's return changes nothing in the frames beneath but the gas of the last.
LEMMA AnswerOutcome ==
  ASSUME NEW under \in Seq(Frames), NEW left \in Nat, NEW ok \in BOOLEAN,
         Answer(under, left, ok), TypeOK
  PROVE  /\ frames' \in Seq(Frames) /\ Len(frames') = Len(under) /\ Len(under) \in Nat
         /\ \A i \in 1..Len(under) : frames'[i].marks = under[i].marks /\ frames'[i].p = under[i].p
         /\ entry' = SubSeq(entry, 1, Len(under))
         /\ phase' = IF Len(under) = 0 THEN "ran" ELSE "running"
         /\ result' \in [ok : BOOLEAN, left : Nat]
<1> DEFINE n == Len(under)
<1>0. n \in Nat
  OBVIOUS
<1>1. CASE n = 0
  BY <1>1 DEF Answer
<1>2. CASE n # 0
  <2> DEFINE f == [under[n] EXCEPT !.gas = under[n].gas + left]
  <2>1. n \in 1..Len(under) /\ under[n] \in Frames
    BY <1>0, <1>2
  <2>2. f \in Frames /\ f.marks = under[n].marks /\ f.p = under[n].p
    BY <2>1 DEF Frames
  <2>3. /\ frames' = [under EXCEPT ![n] = f] /\ entry' = SubSeq(entry, 1, n)
        /\ phase' = "running" /\ result' = result
    BY <1>2 DEF Answer
  <2> HIDE DEF f
  <2>4. /\ frames' \in Seq(Frames) /\ Len(frames') = n
        /\ \A i \in 1..n : frames'[i] = IF i = n THEN f ELSE under[i]
    BY <2>1, <2>2, <2>3
  <2>5. result' \in [ok : BOOLEAN, left : Nat]
    BY <2>3 DEF TypeOK
  <2>6. \A i \in 1..n : frames'[i].marks = under[i].marks /\ frames'[i].p = under[i].p
    BY <2>2, <2>4
  <2> QED
    BY <1>0, <1>2, <2>3, <2>4, <2>5, <2>6
<1> QED
  BY <1>1, <1>2

\* A new frame: its marks are taken in e, everything below holds as before.
LEMMA PushKeeps ==
  ASSUME FrameInv, phase = "running", NEW e, Later(env, e), NEW p \in Params,
         NEW under, Spent(under), NEW f \in Frames,
         f.marks = Marks(e, saved), f.p = p,
         frames' = Append(under, f), entry' = Append(entry, e),
         saved' = Append(saved, e.world), Later(e, env'),
         phase' = "running", base' = base, begun' = begun, result' = result,
         p.ro => Same(e, env') /\ p.kind # "create",
         frames[Len(frames)].p.ro => p.ro /\ Same(env, e)
  PROVE  FrameInv'
<1> DEFINE n == Len(frames)
<1>0. /\ entry \in Seq(Envs) /\ frames \in Seq(Frames) /\ Len(entry) = n /\ n \in Nat /\ n # 0
      /\ saved \in Seq(Worlds) /\ begun \in Envs /\ base \in MarkSet
      /\ result \in [ok : BOOLEAN, left : Nat]
  BY DEF FrameInv, TypeOK, Shape
<1>1. e \in Envs /\ e.world \in Worlds /\ env' \in Envs /\ env \in Envs
  BY DEF Later, Envs
<1>2. /\ entry' \in Seq(Envs) /\ Len(entry') = n + 1 /\ entry'[n + 1] = e
      /\ \A i \in 1..n : entry'[i] = entry[i]
  BY <1>0, <1>1
<1>3. /\ saved' \in Seq(Worlds) /\ Len(saved') = Len(saved) + 1 /\ Len(saved) \in Nat
      /\ \A k \in 1..Len(saved) : saved'[k] = saved[k]
  BY <1>0, <1>1
<1>4. /\ frames' \in Seq(Frames) /\ Len(frames') = n + 1 /\ frames'[n + 1] = f
      /\ \A i \in 1..n : frames'[i] = under[i]
  BY <1>0 DEF Spent
<1>5. \A i \in 1..n : frames'[i].marks = frames[i].marks /\ frames'[i].p = frames[i].p
  BY <1>4 DEF Spent
<1> HIDE DEF n
<1>6. TypeOK'
  BY <1>0, <1>1, <1>2, <1>3, <1>4 DEF TypeOK
<1>7. Shape'
  <2>1. Later(env', env')
    BY LaterReflexive
  <2>2. frames' # <<>>
    <3>1. Len(frames') # 0
      BY <1>0, <1>4
    <3> QED
      BY <3>1
  <2> QED
    BY <1>2, <1>4, <2>1, <2>2 DEF Shape
<1>8. Levels' = 0..(n + 1) /\ Levels = 0..n
  BY <1>4 DEF Levels, n
<1>9. /\ \A i \in 0..n : MarksAt(i)' = MarksAt(i) /\ EntryAt(i)' = EntryAt(i)
      /\ \A i : i = n + 1 => MarksAt(i)' = Marks(e, saved) /\ EntryAt(i)' = e
  <2>1. ASSUME NEW i \in 0..n PROVE MarksAt(i)' = MarksAt(i) /\ EntryAt(i)' = EntryAt(i)
    <3>1. i = 0 \/ i \in 1..n
      BY <1>0
    <3> QED
      BY <1>2, <1>5, <3>1 DEF MarksAt, EntryAt
  <2>2. ASSUME NEW i, i = n + 1 PROVE MarksAt(i)' = Marks(e, saved) /\ EntryAt(i)' = e
    <3>1. i # 0
      BY <1>0, <2>2
    <3>2. MarksAt(i)' = frames'[i].marks /\ EntryAt(i)' = entry'[i]
      BY <3>1 DEF MarksAt, EntryAt
    <3> QED
      BY <1>2, <1>4, <2>2, <3>2
  <2> QED
    BY <2>1, <2>2
<1>10. \A i \in 0..n : Held(MarksAt(i), EntryAt(i), saved, env)
  BY <1>8 DEF FrameInv, AllHeld
<1>11. Held(Marks(e, saved), e, saved', env') /\ Marks(e, saved).rev = Len(saved)
  BY <1>0, MarksHold DEF Marks
<1>12. ASSUME NEW i \in 0..n
       PROVE  /\ Held(MarksAt(i), EntryAt(i), saved', env')
              /\ Later(EntryAt(i), e)
              /\ MarksAt(i).rev < Len(saved)
  <2> DEFINE m == MarksAt(i)
  <2>1. Held(m, EntryAt(i), saved, env)
    BY <1>10
  <2>2. Later(EntryAt(i), e) /\ Later(EntryAt(i), env')
    BY <2>1, LaterTransitive DEF Held
  <2>3. m.rev \in Nat /\ m.rev < Len(saved)
    BY <2>1 DEF Held
  <2> HIDE DEF m
  <2>4. m.rev < Len(saved') /\ saved'[m.rev + 1] = saved[m.rev + 1]
    BY <1>3, <2>3
  <2>5. Held(m, EntryAt(i), saved', env')
    BY <2>1, <2>2, <2>4, HeldLater
  <2> QED
    BY <2>2, <2>3, <2>5 DEF m
<1>13. AllHeld'
  <2>1. \A i \in 0..(n + 1) : i \in 0..n \/ i = n + 1
    BY <1>0
  <2>2. ASSUME NEW i \in Levels' PROVE Held(MarksAt(i), EntryAt(i), saved, env)'
    <3>1. CASE i \in 0..n
      BY <3>1, <1>9, <1>12
    <3>2. CASE i = n + 1
      BY <3>2, <1>9, <1>11
    <3> QED
      BY <1>8, <2>1, <3>1, <3>2
  <2>3. ASSUME NEW i \in Levels', NEW j \in Levels', i < j
        PROVE  (Later(EntryAt(i), EntryAt(j)) /\ MarksAt(i).rev < MarksAt(j).rev)'
    <3>1. i \in 0..n
      BY <1>0, <1>8, <2>3
    <3>2. CASE j \in 0..n
      <4>1. Later(EntryAt(i), EntryAt(j)) /\ MarksAt(i).rev < MarksAt(j).rev
        BY <1>8, <2>3, <3>1, <3>2 DEF FrameInv, AllHeld
      <4> QED
        BY <1>9, <3>1, <3>2, <4>1
    <3>3. CASE j = n + 1
      BY <1>9, <1>11, <1>12, <3>1, <3>3
    <3> QED
      BY <1>8, <2>1, <3>2, <3>3
  <2> QED
    BY <2>2, <2>3 DEF AllHeld
<1>14. ReadOnly'
  <2>0. ReadOnly /\ n \in 1..n /\ \A i \in 1..(n + 1) : i \in 1..n \/ i = n + 1
    BY <1>0 DEF FrameInv
  <2>1. ASSUME NEW i \in 1..n, frames[i].p.ro
        PROVE  frames[n].p.ro /\ Same(entry[i], env)
    <3>1. Same(entry[i], env)
      BY <2>0, <2>1 DEF ReadOnly, n
    <3>2. i = n \/ i < n
      BY <1>0
    <3> QED
      BY <2>0, <2>1, <3>1, <3>2 DEF ReadOnly, n
  <2>2. ASSUME NEW i \in 1..n, frames[i].p.ro
        PROVE  p.ro /\ Same(entry[i], e) /\ Same(entry[i], env')
    <3>1. frames[n].p.ro /\ Same(entry[i], env)
      BY <2>1, <2>2
    <3>2. p.ro /\ Same(env, e) /\ Same(e, env')
      BY <3>1 DEF n
    <3> QED
      BY <3>1, <3>2 DEF Same
  <2>3. ASSUME NEW i \in 1..(n + 1), frames'[i].p.ro PROVE Same(entry'[i], env')
    <3>1. CASE i \in 1..n
      BY <1>2, <1>5, <2>2, <2>3, <3>1
    <3>2. CASE i = n + 1
      BY <1>2, <1>4, <2>3, <3>2
    <3> QED
      BY <2>0, <3>1, <3>2
  <2>4. ASSUME NEW i \in 1..(n + 1), NEW j \in 1..(n + 1), i < j, frames'[i].p.ro
        PROVE  frames'[j].p.ro /\ Same(entry'[i], entry'[j])
    <3>1. i \in 1..n
      BY <1>0, <2>4
    <3>2. CASE j \in 1..n
      BY <1>2, <1>5, <2>0, <2>4, <3>1, <3>2 DEF ReadOnly, n
    <3>3. CASE j = n + 1
      BY <1>2, <1>4, <1>5, <2>2, <2>4, <3>1, <3>3
    <3> QED
      BY <2>0, <3>2, <3>3
  <2>5. \A i \in 1..(n + 1) : frames'[i].p.ro => frames'[i].p.kind # "create"
    BY <1>4, <1>5, <2>0 DEF ReadOnly, n
  <2> QED
    BY <1>4, <2>3, <2>4, <2>5 DEF ReadOnly
<1> QED
  BY <1>6, <1>7, <1>13, <1>14 DEF FrameInv

-----------------------------------------------------------------------------
\* The steps.

\* The innermost frame, and the frames below it.
LEMMA TopTyped ==
  ASSUME FrameInv, phase = "running"
  PROVE  /\ Len(frames) \in Nat \ {0} /\ Top \in Frames /\ Under \in Seq(Frames)
         /\ Len(Under) = Len(frames) - 1
         /\ \A i \in 1..(Len(frames) - 1) : Under[i] = frames[i]
         /\ \A f \in Frames : f.p = Top.p /\ f.marks = Top.marks => Spent(Append(Under, f))
<1>1. frames \in Seq(Frames) /\ frames # <<>>
  BY DEF FrameInv, TypeOK, Shape
<1> DEFINE n == Len(frames)
<1>2. n \in Nat \ {0} /\ n \in 1..n
  BY <1>1
<1>3. Top \in Frames
  BY <1>1, <1>2 DEF Top
<1>4. /\ Under \in Seq(Frames) /\ Len(Under) = n - 1
      /\ \A i \in 1..(n - 1) : Under[i] = frames[i]
  <2> DEFINE m == n - 1
  <2>1. m \in Nat /\ m <= n
    BY <1>2
  <2>2. Under = SubSeq(frames, 1, m)
    BY DEF Under
  <2> HIDE DEF m
  <2>3. SubSeq(frames, 1, m) \in Seq(Frames) /\ Len(SubSeq(frames, 1, m)) = m
    BY <1>1, <2>1
  <2>4. \A i \in 1..m : SubSeq(frames, 1, m)[i] = frames[i]
    BY <1>1, <2>1
  <2> QED
    BY <2>2, <2>3, <2>4 DEF m
<1> HIDE DEF n
<1>5. ASSUME NEW f \in Frames, f.p = Top.p, f.marks = Top.marks PROVE Spent(Append(Under, f))
  <2> DEFINE u == Append(Under, f)
  <2>1. /\ u \in Seq(Frames) /\ Len(u) = n /\ u[n] = f
        /\ \A i \in 1..(n - 1) : u[i] = frames[i]
    BY <1>2, <1>4
  <2> HIDE DEF u
  <2>2. \A i \in 1..n : i = n \/ i \in 1..(n - 1)
    BY <1>2
  <2>3. \A i \in 1..n : u[i].marks = frames[i].marks /\ u[i].p = frames[i].p
    BY <1>5, <2>1, <2>2 DEF Top, n
  <2> QED
    BY <2>1, <2>3 DEF Spent, u, n
<1> QED
  BY <1>2, <1>3, <1>4, <1>5 DEF n

\* A step that only spends gas and moves the environment on.
LEMMA SpendKeeps ==
  ASSUME FrameInv, phase = "running", Spent(frames'), Later(env, env'),
         Top.p.ro => Same(env, env'),
         UNCHANGED <<saved, base, result, phase, begun, entry>>
  PROVE  FrameInv'
<1>1. /\ Len(frames) \in Nat /\ Len(frames) # 0 /\ entry \in Seq(Envs)
      /\ Len(entry) = Len(frames) /\ result \in [ok : BOOLEAN, left : Nat]
  BY TopTyped DEF FrameInv, TypeOK, Shape
<1>2. SubSeq(entry, 1, Len(frames)) = entry
  BY <1>1
<1>3. Len(frames) \in 0..Len(frames) /\ saved' = saved
  BY <1>1
<1>4. /\ frames' \in Seq(Frames) /\ Len(frames') = Len(frames)
      /\ \A i \in 1..Len(frames) : frames'[i].marks = frames[i].marks /\ frames'[i].p = frames[i].p
  BY DEF Spent
<1>5. /\ phase' = IF Len(frames) = 0 THEN "ran" ELSE "running"
      /\ entry' = SubSeq(entry, 1, Len(frames))
      /\ base' = base /\ begun' = begun /\ result' \in [ok : BOOLEAN, left : Nat]
  BY <1>1, <1>2
<1>6. frames[Len(frames)].p.ro => Same(env, env')
  BY DEF Top
<1> QED
  BY <1>3, <1>4, <1>5, <1>6, AdvanceKeeps

\* A call of run from the innermost frame.
LEMMA RunKeeps ==
  ASSUME FrameInv, phase = "running", NEW e, Later(env, e), NEW under, Spent(under),
         NEW p \in Params, Run(e, saved, under, p), base' = base, begun' = begun,
         p.ro => Silent(p), Top.p.ro => p.ro /\ Same(env, e)
  PROVE  FrameInv'
<1>0. /\ saved \in Seq(Worlds) /\ entry \in Seq(Envs) /\ Len(entry) = Len(frames)
      /\ Len(frames) \in Nat /\ Len(frames) # 0 /\ TypeOK
  BY TopTyped DEF FrameInv, TypeOK, Shape
<1>1. Later(e, e) /\ e \in Envs /\ e.world \in Worlds
  BY LaterReflexive DEF Later, Envs
<1>2. /\ Later(e, env')
      /\ Silent(p) => Same(e, env')
      /\ \/ /\ saved' = saved \/ saved' = Append(saved, e.world)
            /\ \E left \in Nat, ok \in BOOLEAN : Answer(under, left, ok)
         \/ /\ saved' = Append(saved, e.world)
            /\ frames' = Append(under, [p |-> p, gas |-> p.gas, marks |-> Marks(e, saved)])
            /\ entry' = Append(SubSeq(entry, 1, Len(under)), e)
            /\ phase' = "running"
            /\ UNCHANGED result
  BY <1>0, <1>1, RunOutcome
<1>3. Len(under) = Len(frames) /\ under \in Seq(Frames) /\ SubSeq(entry, 1, Len(under)) = entry
  BY <1>0 DEF Spent
<1>4. ASSUME saved' = saved \/ saved' = Append(saved, e.world),
             NEW left \in Nat, NEW ok \in BOOLEAN, Answer(under, left, ok)
      PROVE  FrameInv'
  <2>1. /\ frames' \in Seq(Frames) /\ Len(frames') = Len(frames)
        /\ \A i \in 1..Len(frames) : frames'[i].marks = under[i].marks /\ frames'[i].p = under[i].p
        /\ entry' = SubSeq(entry, 1, Len(frames))
        /\ phase' = IF Len(frames) = 0 THEN "ran" ELSE "running"
        /\ result' \in [ok : BOOLEAN, left : Nat]
    BY <1>0, <1>3, <1>4, AnswerOutcome
  <2>2. \A i \in 1..Len(frames) : frames'[i].marks = frames[i].marks /\ frames'[i].p = frames[i].p
    BY <2>1 DEF Spent
  <2>3. Later(env, env')
    BY <1>2, LaterTransitive
  <2>4. frames[Len(frames)].p.ro => Same(env, env')
    BY <1>2 DEF Same, Top
  <2>5. saved' = saved \/ \E w \in Worlds : saved' = Append(saved, w)
    BY <1>1, <1>4
  <2>6. Len(frames) \in 0..Len(frames)
    BY <1>0
  <2> QED
    BY <2>1, <2>2, <2>3, <2>4, <2>5, <2>6, AdvanceKeeps
<1>5. ASSUME saved' = Append(saved, e.world),
             frames' = Append(under, [p |-> p, gas |-> p.gas, marks |-> Marks(e, saved)]),
             entry' = Append(SubSeq(entry, 1, Len(under)), e),
             phase' = "running", UNCHANGED result
      PROVE  FrameInv'
  <2> DEFINE f == [p |-> p, gas |-> p.gas, marks |-> Marks(e, saved)]
  <2>1. Marks(e, saved) \in MarkSet
    BY <1>0, <1>1, MarksHold
  <2>2. f \in Frames /\ f.marks = Marks(e, saved) /\ f.p = p
    BY <2>1 DEF Frames, Params
  <2>3. frames' = Append(under, f)
    BY <1>5
  <2> HIDE DEF f
  <2>4. p.ro => Same(e, env') /\ p.kind # "create"
    BY <1>2 DEF Silent
  <2>5. frames[Len(frames)].p.ro => p.ro /\ Same(env, e)
    BY DEF Top
  <2>6. entry' = Append(entry, e)
    BY <1>3, <1>5
  <2> QED
    BY <1>2, <1>5, <2>2, <2>3, <2>4, <2>5, <2>6, PushKeeps
<1> QED
  BY <1>2, <1>4, <1>5

\* A frame that fails: its environment is the one it was entered with, which the
\* levels below hold as well.
LEMMA FailKeeps ==
  ASSUME FrameInv, phase = "running", NEW left \in Nat, Fail(left) PROVE FrameInv'
<1> DEFINE n == Len(frames)
<1>0. /\ n \in Nat \ {0} /\ Under \in Seq(Frames) /\ Len(Under) = n - 1
      /\ \A i \in 1..(n - 1) : Under[i] = frames[i]
  BY TopTyped
<1>1. /\ Levels = 0..n /\ n \in Levels /\ MarksAt(n) = Top.marks /\ EntryAt(n) = entry[n]
      /\ saved \in Seq(Worlds) /\ TypeOK
  BY <1>0 DEF FrameInv, TypeOK, Levels, MarksAt, EntryAt, Top
<1>2. Held(Top.marks, entry[n], saved, env)
  BY <1>1 DEF FrameInv, AllHeld
<1>3. env' = entry[n]
  BY <1>2, HeldRestores DEF Fail
<1> DEFINE v == Top.marks.rev
<1>4. v \in Nat /\ v < Len(saved) /\ saved' = SubSeq(saved, 1, v)
  BY <1>2 DEF Held, Fail
<1>5. /\ frames' \in Seq(Frames) /\ Len(frames') = n - 1
      /\ \A i \in 1..(n - 1) : frames'[i].marks = Under[i].marks /\ frames'[i].p = Under[i].p
      /\ entry' = SubSeq(entry, 1, n - 1)
      /\ phase' = IF n - 1 = 0 THEN "ran" ELSE "running"
      /\ result' \in [ok : BOOLEAN, left : Nat]
  BY <1>0, <1>1, AnswerOutcome DEF Fail
<1>6. base' = base /\ begun' = begun
  BY DEF Fail
<1>7. \A i \in 0..(n - 1) : Later(EntryAt(i), entry[n]) /\ MarksAt(i).rev < v
  <2> TAKE i \in 0..(n - 1)
  <2>1. i \in Levels /\ i < n
    BY <1>0, <1>1
  <2> QED
    BY <1>1, <2>1 DEF FrameInv, AllHeld
<1>8. \A i \in 1..(n - 1) : frames[i].p.ro => Same(entry[i], entry[n])
  BY <1>0 DEF FrameInv, ReadOnly
<1>9. Later(env', env')
  BY <1>2, <1>3, LaterReflexive DEF Held
<1> HIDE DEF n, v
<1>10. /\ saved' \in Seq(Worlds) /\ Len(saved') = v
       /\ \A k \in 1..v : saved'[k] = saved[k]
  BY <1>1, <1>4
<1>11. ASSUME NEW i \in 0..(n - 1)
       PROVE  /\ Later(EntryAt(i), env')
              /\ MarksAt(i).rev < Len(saved')
              /\ saved'[MarksAt(i).rev + 1] = saved[MarksAt(i).rev + 1]
  <2> DEFINE m == MarksAt(i)
  <2>1. m.rev < v /\ Later(EntryAt(i), env')
    BY <1>3, <1>7
  <2>2. m.rev \in Nat
    <3>1. i \in Levels
      BY <1>0, <1>1
    <3> QED
      BY <3>1 DEF FrameInv, AllHeld, Held
  <2> HIDE DEF m
  <2>3. m.rev + 1 \in 1..v
    BY <1>4, <2>1, <2>2
  <2> QED
    BY <1>10, <2>1, <2>3 DEF m
<1>12. n - 1 \in 0..Len(frames) /\ \A i \in 1..(n - 1) : Under[i] = frames[i]
  BY <1>0 DEF n
<1>13. \A i \in 1..(n - 1) : frames[i].p.ro => Same(entry[i], env')
  BY <1>3, <1>8
<1>14. \A i \in 1..(n - 1) : frames'[i].marks = frames[i].marks /\ frames'[i].p = frames[i].p
  BY <1>5, <1>12
<1> QED
  BY <1>5, <1>6, <1>9, <1>10, <1>11, <1>12, <1>13, <1>14, CutKeeps

\* A frame that succeeds: what it did stays, and its level goes.
LEMMA SucceedKeeps ==
  ASSUME FrameInv, phase = "running", NEW e, Later(env, e), Top.p.ro => Same(env, e),
         NEW gas \in Nat, NEW code \in BOOLEAN, Succeed(e, gas, code)
  PROVE  FrameInv'
<1> DEFINE n == Len(frames)
           p == Top.p
<1>0. /\ n \in Nat \ {0} /\ Under \in Seq(Frames) /\ Len(Under) = n - 1 /\ Top \in Frames
      /\ \A i \in 1..(n - 1) : Under[i] = frames[i]
  BY TopTyped
<1>1. TypeOK /\ p.addr \in Address /\ (p.ro => p.kind # "create")
  <2>1. n \in 1..Len(frames) /\ ReadOnly /\ TypeOK
    BY <1>0 DEF FrameInv
  <2> QED
    BY <1>0, <2>1 DEF ReadOnly, Top, Frames, Params
<1>2. ASSUME NEW left \in Nat, Answer(Under, left, TRUE), Later(env, env'),
             p.ro => Same(env, env'), UNCHANGED <<saved, base, begun>>
      PROVE  FrameInv'
  <2>1. /\ frames' \in Seq(Frames) /\ Len(frames') = n - 1
        /\ \A i \in 1..(n - 1) : frames'[i].marks = Under[i].marks /\ frames'[i].p = Under[i].p
        /\ entry' = SubSeq(entry, 1, n - 1)
        /\ phase' = IF n - 1 = 0 THEN "ran" ELSE "running"
        /\ result' \in [ok : BOOLEAN, left : Nat]
    BY <1>0, <1>1, <1>2, AnswerOutcome
  <2>2. \A i \in 1..(n - 1) : frames'[i].marks = frames[i].marks /\ frames'[i].p = frames[i].p
    BY <1>0, <2>1
  <2>3. n - 1 \in 0..Len(frames) /\ saved' = saved /\ base' = base /\ begun' = begun
    BY <1>0, <1>2
  <2>4. frames[Len(frames)].p.ro => Same(env, env')
    BY <1>2 DEF Top
  <2> HIDE DEF n
  <2> QED
    BY <1>2, <2>1, <2>2, <2>3, <2>4, AdvanceKeeps
<1> DEFINE deposit == IF code THEN DepositGas ELSE 0
           w == setNonce(setCode(e.world, p.addr, code), p.addr)
           done == [e EXCEPT !.world = w, !.created = Mark(e.created, p.addr)]
<1>3. deposit \in Nat
  BY CallAssumption
<1>4. Later(env, done)
  <2>1. e \in Envs /\ e.world \in Worlds
    BY DEF Later, Envs
  <2>2. setCode(e.world, p.addr, code) \in Worlds
    BY <1>1, <2>1, SettersTyped
  <2>3. w \in Worlds
    BY <1>1, <2>2, SettersTyped
  <2> DEFINE f == [e EXCEPT !.created = Mark(e.created, p.addr)]
  <2>4. Later(env, f)
    BY <1>1, CreatedLater
  <2> HIDE DEF w
  <2>5. Later(env, [f EXCEPT !.world = w])
    BY <2>3, <2>4, LaterWorld
  <2>6. done = [f EXCEPT !.world = w]
    BY <2>1 DEF Envs
  <2> QED
    BY <2>5, <2>6
<1>5. CASE p.kind # "create" \/ p.addr \in e.suicided.map
  <2>1. env' = e /\ UNCHANGED <<saved, base, begun>> /\ Answer(Under, gas, TRUE)
    BY <1>5 DEF Succeed
  <2> QED
    BY <1>2, <2>1
<1>6. CASE ~(p.kind # "create" \/ p.addr \in e.suicided.map)
  <2>1. CASE gas < deposit
    <3>1. Fail(0)
      BY <1>6, <2>1 DEF Succeed
    <3> QED
      BY <3>1, FailKeeps
  <2>2. CASE ~(gas < deposit)
    <3>1. env' = done /\ UNCHANGED <<saved, base, begun>> /\ Answer(Under, gas - deposit, TRUE)
      BY <1>6, <2>2 DEF Succeed
    <3> HIDE DEF deposit, done
    <3>2. gas - deposit \in Nat /\ ~p.ro
      BY <1>1, <1>3, <1>6, <2>2
    <3> QED
      BY <1>2, <1>4, <3>1, <3>2
  <2> QED
    BY <2>1, <2>2
<1> QED
  BY <1>5, <1>6

\* The innermost frame can pay for the gas given to a frame above it, and under are
\* the frames once it has.
Affords(under, given) ==
  \E g \in Frames : under = Append(Under, g) /\ g.gas + given <= Top.gas

\* The gas a call is given is gas its caller has.
LEMMA ForwardedGas ==
  ASSUME NEW g \in Nat, NEW req \in Nat
  PROVE  eip150(g) \in 0..g /\ callGas(g, req) \in 0..g
<1> DEFINE d == Div
           q == g \div d
           r == g % d
<1>0. d \in Nat \ {0}
  BY CallAssumption
<1> HIDE DEF d
<1>1. q \in Int /\ r \in 0..(d - 1) /\ g = d * q + r
  BY <1>0
<1> HIDE DEF q, r
<1>2. q >= 0
  BY <1>0, <1>1
<1>3. d * q >= q
  BY <1>0, <1>1, <1>2
<1>4. g - q \in 0..g
  <2>1. d * q \in Int
    BY <1>0, <1>1
  <2> QED
    BY <1>0, <1>1, <1>2, <1>3, <2>1
<1>5. eip150(g) = g - q
  BY DEF eip150, q, d
<1> QED
  BY <1>4, <1>5 DEF callGas

\* The first run: the transaction's marks and those of its first frame are taken
\* in the same environment, one snapshot apart.
LEMMA BeginKeeps ==
  ASSUME FrameInv, NEW to \in Address, NEW val \in Nat, NEW create \in BOOLEAN,
         BeginTx(to, val, create)
  PROVE  FrameInv'
<1> DEFINE known == Mark(Mark(env.touched, From), Coinbase)
           t == IF create THEN known ELSE Mark(known, to)
           e == [env EXCEPT !.touched = t]
           p == [caller |-> From, addr |-> to, codeAddr |-> to, val |-> val, gas |-> TxGas,
                 ro |-> FALSE, kind |-> IF create THEN "create" ELSE "call"]
           s == Append(saved, e.world)
<1>0. /\ phase = "ready" /\ base' = Marks(e, saved) /\ begun' = e
      /\ Run(e, s, <<>>, p)
  BY DEF BeginTx
<1>1. p \in Params /\ ~p.ro
  BY CallAssumption DEF Params
<1>2. e \in Envs /\ e.world \in Worlds /\ Later(e, e)
  <2>1. env \in Envs /\ Sound(env.touched) /\ Later(env, env)
    BY DEF FrameInv, Shape, Later, Grows
  <2>2. Grows(env.touched, Mark(env.touched, From)) /\ Sound(Mark(env.touched, From))
    BY <2>1, MarkGrows, CallAssumption DEF Grows
  <2>3. Sound(known)
    BY <2>2, MarkGrows, CallAssumption DEF Grows
  <2> HIDE DEF known
  <2>4. Sound(t)
    BY <2>3, MarkGrows DEF Grows
  <2> HIDE DEF t
  <2>5. Grows(t, t) /\ t \in Journalled
    BY <2>4 DEF Grows, Sound, Journalled
  <2>6. /\ e \in Envs /\ e.logs = env.logs /\ e.touched = t /\ e.world = env.world
        /\ e.created = env.created /\ e.suicided = env.suicided /\ env.world \in Worlds
    BY <2>1, <2>5 DEF Envs
  <2> HIDE DEF e
  <2>7. Later(e, e)
    BY <2>1, <2>5, <2>6 DEF Later
  <2> QED
    BY <2>6, <2>7
<1> HIDE DEF e, p
<1>3. /\ saved \in Seq(Worlds) /\ entry \in Seq(Envs) /\ frames = <<>> /\ TypeOK
      /\ s \in Seq(Worlds) /\ Len(s) = Len(saved) + 1 /\ Len(saved) \in Nat
      /\ \A k \in 1..Len(saved) + 1 : Append(s, e.world)[k] = s[k]
      /\ Append(s, e.world) \in Seq(Worlds) /\ Len(Append(s, e.world)) = Len(saved) + 2
  <2>1. saved \in Seq(Worlds) /\ entry \in Seq(Envs) /\ frames = <<>> /\ TypeOK
    BY <1>0 DEF FrameInv, TypeOK, Shape
  <2>2. s \in Seq(Worlds) /\ Len(s) = Len(saved) + 1 /\ Len(saved) \in Nat
    BY <1>2, <2>1
  <2> HIDE DEF s
  <2> QED
    BY <1>2, <2>1, <2>2
<1>4. SubSeq(entry, 1, 0) = <<>>
  BY <1>3
<1> DEFINE f == [p |-> p, gas |-> p.gas, marks |-> Marks(e, s)]
<1>5. /\ Later(e, env')
      /\ \/ /\ saved' = s \/ saved' = Append(s, e.world)
            /\ \E left \in Nat, ok \in BOOLEAN : Answer(<<>>, left, ok)
         \/ /\ saved' = Append(s, e.world)
            /\ frames' = Append(<<>>, f)
            /\ entry' = Append(SubSeq(entry, 1, Len(<<>>)), e)
            /\ phase' = "running"
            /\ UNCHANGED result
  <2> HIDE DEF s
  <2> QED
    BY <1>0, <1>1, <1>2, <1>3, RunOutcome
<1>6. Held(base', e, s, env') /\ base' \in MarkSet /\ base'.rev = Len(saved)
  BY <1>0, <1>3, <1>5, MarksHold DEF Marks
<1> HIDE DEF s
<1>7. Marks(e, s) \in MarkSet /\ Marks(e, s).rev = Len(s)
      /\ Held(Marks(e, s), e, Append(s, e.world), env')
  BY <1>3, <1>5, MarksHold DEF Marks
<1>8. saved' = s \/ saved' = Append(s, e.world)
  BY <1>5
<1>9. Held(base', e, saved', env') /\ saved' \in Seq(Worlds)
  <2> DEFINE r == base'.rev
  <2>1. r = Len(saved)
    BY <1>6
  <2> HIDE DEF r
  <2>2. r < Len(saved') /\ saved'[r + 1] = s[r + 1]
    <3>1. r \in Nat /\ r + 1 \in 1..(Len(saved) + 1)
      BY <1>3, <2>1
    <3>2. CASE saved' = s
      BY <1>3, <2>1, <3>1, <3>2
    <3>3. CASE saved' = Append(s, e.world)
      <4>1. saved'[r + 1] = s[r + 1]
        BY <1>3, <3>1, <3>3, Zenon
      <4>2. r < Len(saved')
        BY <1>3, <2>1, <3>3
      <4> QED
        BY <4>1, <4>2
    <3> QED
      BY <1>8, <3>2, <3>3
  <2>3. Later(e, env')
    BY <1>5
  <2> QED
    BY <1>3, <1>6, <1>8, <2>2, <2>3, HeldLater DEF r
<1>10. Later(env', env') /\ env' \in Envs
  BY <1>5, LaterReflexive DEF Later
<1>11. ASSUME NEW left \in Nat, NEW ok \in BOOLEAN, Answer(<<>>, left, ok) PROVE FrameInv'
  <2>1. /\ frames' = <<>> /\ entry' = <<>> /\ phase' = "ran"
        /\ result' = [ok |-> ok, left |-> left]
    BY <1>4, <1>11 DEF Answer
  <2>2. TypeOK' /\ Shape'
    BY <1>0, <1>2, <1>6, <1>9, <1>10, <2>1 DEF TypeOK, Shape
  <2>3. Levels' = 0..0 /\ \A i \in 0..0 : MarksAt(i)' = base' /\ EntryAt(i)' = e
    BY <1>0, <2>1 DEF Levels, MarksAt, EntryAt
  <2>4. AllHeld'
    BY <1>9, <2>3 DEF AllHeld
  <2>5. ReadOnly'
    BY <2>1 DEF ReadOnly
  <2> QED
    BY <2>2, <2>4, <2>5 DEF FrameInv
<1>12. ASSUME saved' = Append(s, e.world), frames' = Append(<<>>, f),
              entry' = Append(SubSeq(entry, 1, Len(<<>>)), e),
              phase' = "running", UNCHANGED result
       PROVE  FrameInv'
  <2>1. f \in Frames /\ f.marks = Marks(e, s) /\ ~f.p.ro
    BY <1>1, <1>7 DEF Frames, Params
  <2>2. entry' = Append(<<>>, e) /\ frames' = Append(<<>>, f)
    <3>1. Len(<<>>) = 0
      OBVIOUS
    <3> QED
      BY <1>4, <1>12, <3>1
  <2> HIDE DEF f
  <2>3. /\ frames' \in Seq(Frames) /\ Len(frames') = 1 /\ frames'[1] = f /\ frames' # <<>>
        /\ entry' \in Seq(Envs) /\ Len(entry') = 1 /\ entry'[1] = e
    BY <1>2, <2>1, <2>2
  <2>4. result' \in [ok : BOOLEAN, left : Nat]
    BY <1>3, <1>12 DEF TypeOK
  <2>5. TypeOK' /\ Shape'
    BY <1>0, <1>2, <1>6, <1>9, <1>10, <1>12, <2>3, <2>4 DEF TypeOK, Shape
  <2>6. Levels' = 0..1
    BY <1>12, <2>3 DEF Levels
  <2>7. ASSUME NEW i \in 0..1
        PROVE  /\ i = 0 => MarksAt(i)' = base' /\ EntryAt(i)' = e
               /\ i = 1 => MarksAt(i)' = Marks(e, s) /\ EntryAt(i)' = e
    BY <1>0, <2>1, <2>3 DEF MarksAt, EntryAt
  <2>8. \A i \in 0..1 : i = 0 \/ i = 1
    OBVIOUS
  <2>9. ASSUME NEW i \in Levels' PROVE Held(MarksAt(i), EntryAt(i), saved, env)'
    <3>1. CASE i = 0
      BY <1>9, <2>6, <2>7, <3>1
    <3>2. CASE i = 1
      BY <1>7, <1>12, <2>6, <2>7, <3>2
    <3> QED
      BY <2>6, <2>8, <3>1, <3>2
  <2>10. ASSUME NEW i \in Levels', NEW j \in Levels', i < j
         PROVE  (Later(EntryAt(i), EntryAt(j)) /\ MarksAt(i).rev < MarksAt(j).rev)'
    <3>1. i = 0 /\ j = 1
      BY <2>6, <2>10
    <3>2. /\ MarksAt(i)' = base' /\ EntryAt(i)' = e
          /\ MarksAt(j)' = Marks(e, s) /\ EntryAt(j)' = e
      BY <2>6, <2>7, <3>1
    <3>3. base'.rev < Marks(e, s).rev
      BY <1>3, <1>6, <1>7
    <3> QED
      BY <1>2, <3>2, <3>3
  <2>11. AllHeld'
    BY <2>9, <2>10 DEF AllHeld
  <2>12. ReadOnly'
    <3>1. \A i \in 1..Len(frames') : ~frames'[i].p.ro
      BY <2>1, <2>3
    <3> QED
      BY <3>1 DEF ReadOnly
  <2> QED
    BY <2>5, <2>11, <2>12 DEF FrameInv
<1> QED
  BY <1>5, <1>11, <1>12

\* ProcessTransaction after the first run: no level is left.
LEMMA EndKeeps ==
  ASSUME FrameInv, EndTx PROVE FrameInv'
<1> DEFINE e == IF result.ok THEN env ELSE Restored(env, saved, base)
           empty == {a \in e.touched.map : emptyAccount(e.world, a)}
           w == Delete(Delete(e.world, empty), e.suicided.map \cap e.created.map)
<1>0. /\ phase = "ran" /\ env' = [e EXCEPT !.world = w] /\ phase' = "swept"
      /\ saved' = IF result.ok THEN saved ELSE SubSeq(saved, 1, base.rev)
      /\ UNCHANGED <<frames, base, result, begun, entry>>
  BY DEF EndTx
<1>1. TypeOK /\ Later(env, env) /\ frames = <<>> /\ Len(entry) = Len(frames)
  BY <1>0 DEF FrameInv, Shape
<1>2. Held(base, begun, saved, env)
  <2>1. Levels = 0..0 /\ MarksAt(0) = base /\ EntryAt(0) = begun
    BY <1>0, <1>1 DEF Levels, MarksAt, EntryAt
  <2> QED
    BY <2>1 DEF FrameInv, AllHeld
<1>3. Later(e, e) /\ e \in Envs
  <2>1. Restored(env, saved, base) = begun
    BY <1>2, HeldRestores
  <2>2. Later(begun, begun)
    BY <1>2, LaterReflexive DEF Held
  <2> QED
    BY <1>1, <2>1, <2>2 DEF Later
<1> HIDE DEF e
<1>4. w \in Worlds
  BY <1>3, DeleteTyped DEF Envs
<1> HIDE DEF w
<1>5. Later(e, env')
  BY <1>0, <1>3, <1>4, LaterWorld
<1>6. saved' \in Seq(Worlds)
  <2>1. saved \in Seq(Worlds) /\ base.rev \in Nat /\ base.rev < Len(saved)
    BY <1>1, <1>2 DEF TypeOK, Held
  <2>2. SubSeq(saved, 1, base.rev) \in Seq(Worlds)
    BY <2>1
  <2> QED
    BY <1>0, <2>1, <2>2
<1>7. Later(env', env') /\ env' \in Envs
  BY <1>5, LaterReflexive DEF Later
<1>8. TypeOK' /\ Shape'
  BY <1>0, <1>1, <1>6, <1>7 DEF TypeOK, Shape
<1>9. Levels' = {}
  BY <1>0 DEF Levels
<1>10. AllHeld'
  BY <1>9 DEF AllHeld
<1>11. ReadOnly'
  BY <1>0, <1>1 DEF ReadOnly
<1> QED
  BY <1>8, <1>10, <1>11 DEF FrameInv

\* An opcode of the innermost frame that costs gas and does not end it: the frames
\* stay.
LEMMA OpcodeSpends ==
  ASSUME FrameInv, NEW cost \in Nat, Charged(cost),
         frames' = [frames EXCEPT ![Len(frames)] = [Top EXCEPT !.gas = Top.gas - cost]]
  PROVE  phase = "running" /\ Spent(frames')
<1> DEFINE n == Len(frames)
           f == [Top EXCEPT !.gas = Top.gas - cost]
<1>1. phase = "running" /\ Top.gas >= cost
  BY DEF Charged
<1>2. n \in Nat \ {0} /\ Top \in Frames /\ frames \in Seq(Frames) /\ Top = frames[n]
  BY <1>1, TopTyped DEF FrameInv, TypeOK, Top
<1>3. f \in Frames /\ f.p = Top.p /\ f.marks = Top.marks
  <2>1. Top.gas - cost \in Nat
    BY <1>1, <1>2 DEF Frames
  <2> QED
    BY <1>2, <2>1 DEF Frames
<1>4. frames' = [frames EXCEPT ![n] = f]
  OBVIOUS
<1> HIDE DEF f
<1>5. /\ frames' \in Seq(Frames) /\ Len(frames') = n
      /\ \A i \in 1..n : frames'[i] = IF i = n THEN f ELSE frames[i]
  BY <1>2, <1>3, <1>4
<1>6. Spent(frames')
  BY <1>2, <1>3, <1>5 DEF Spent
<1> QED
  BY <1>1, <1>6

\* Such an opcode preserves the invariant.
LEMMA OpcodeKeeps ==
  ASSUME FrameInv, NEW cost \in Nat, Charged(cost), Later(env, env'),
         Top.p.ro => Same(env, env'),
         frames' = [frames EXCEPT ![Len(frames)] = [Top EXCEPT !.gas = Top.gas - cost]],
         UNCHANGED <<saved, base, result, phase, begun, entry>>
  PROVE  FrameInv'
<1>1. phase = "running" /\ Spent(frames')
  BY OpcodeSpends
<1> QED
  BY <1>1, SpendKeeps

\* SSTORE and LOG, which a read-only frame may not run.
LEMMA WritesKeep ==
  ASSUME FrameInv, NEW e, Later(env, e), Writes(1, e) PROVE FrameInv'
<1>1. /\ Charged(1) /\ ~Top.p.ro /\ env' = e /\ 1 \in Nat
      /\ frames' = [frames EXCEPT ![Len(frames)] = [Top EXCEPT !.gas = Top.gas - 1]]
      /\ UNCHANGED <<saved, base, result, phase, begun, entry>>
  BY DEF Writes
<1> QED
  BY <1>1, OpcodeKeeps

\* What the opcodes SSTORE and LOG give.
LEMMA WrittenLater ==
  ASSUME FrameInv, phase = "running"
  PROVE  /\ \A v \in BOOLEAN :
              Later(env, [env EXCEPT !.world =
                            [env.world EXCEPT !.slot = [env.world.slot EXCEPT ![Top.p.addr] = v]]])
         /\ Later(env, [env EXCEPT !.logs = Append(env.logs, Top.p.addr)])
<1>0. Later(env, env) /\ env \in Envs /\ Top.p.addr \in Address /\ env.world \in Worlds
  BY TopTyped DEF FrameInv, Shape, Later, Frames, Params, Envs
<1>1. ASSUME NEW v \in BOOLEAN
      PROVE  [env.world EXCEPT !.slot = [env.world.slot EXCEPT ![Top.p.addr] = v]] \in Worlds
  BY <1>0 DEF Worlds
<1> DEFINE k == env.logs
           l == Append(k, Top.p.addr)
           f == [env EXCEPT !.logs = l]
<1>2. k \in Seq(Address)
  BY <1>0 DEF Envs
<1>3. LogGrows(k, l) /\ l \in Seq(Address)
  <2> HIDE DEF k
  <2>1. l \in Seq(Address) /\ Len(l) = Len(k) + 1 /\ Len(k) \in Nat
        /\ \A i \in 1..Len(k) : l[i] = k[i]
    BY <1>0, <1>2
  <2> QED
    BY <1>2, <2>1 DEF LogGrows
<1> HIDE DEF l
<1>4. /\ f \in Envs /\ f.logs = l /\ f.touched = env.touched
      /\ f.created = env.created /\ f.suicided = env.suicided
  BY <1>0, <1>3 DEF Envs
<1> HIDE DEF f
<1>5. Later(env, f)
  BY <1>0, <1>3, <1>4 DEF Later
<1> QED
  BY <1>0, <1>1, <1>5, LaterWorld DEF f, l

\* opCall runs a frame that creates nothing, above the running ones; a read-only
\* frame calls read-only frames, and without a value.
LEMMA CallRuns ==
  ASSUME FrameInv, NEW op \in {"call", "callcode", "delegatecall", "staticcall"},
         NEW to \in Address, NEW val \in Vals, NEW req \in Reqs, opCall(op, to, val, req)
  PROVE  /\ phase = "running" /\ base' = base /\ begun' = begun
         /\ \E under : \E p \in Params :
              /\ Spent(under) /\ Affords(under, p.gas) /\ Run(env, saved, under, p)
              /\ p.kind # "create"
              /\ p.ro => Silent(p)
              /\ Top.p.ro => p.ro
<1> DEFINE f == Top
           extra == IF val = 0 THEN 0
                    ELSE CallValue + (IF emptyAccount(env.world, to) THEN NewAccountGas ELSE 0)
           gas == f.gas - 1 - extra
           fwd == callGas(gas, req)
           given == fwd + (IF val = 0 THEN 0 ELSE Stipend)
           p == [caller   |-> IF op = "delegatecall" THEN f.p.caller ELSE f.p.addr,
                 addr     |-> IF op \in {"delegatecall", "callcode"} THEN f.p.addr ELSE to,
                 codeAddr |-> to,
                 val      |-> IF op = "delegatecall" THEN f.p.val ELSE val,
                 gas      |-> given,
                 ro       |-> f.p.ro \/ op = "staticcall",
                 kind     |-> IF op = "delegatecall" THEN "delegate" ELSE "call"]
           g == [f EXCEPT !.gas = gas - fwd]
<1>0. /\ Charged(1 + extra)
      /\ op \in {"call", "callcode"} \/ val = 0
      /\ ~f.p.ro \/ val = 0
      /\ Run(env, saved, Append(Under, g), p)
      /\ base' = base /\ begun' = begun
  BY DEF opCall
<1>1. phase = "running" /\ f.gas >= 1 + extra
  BY <1>0 DEF Charged
<1>2. f \in Frames /\ \A h \in Frames : h.p = f.p /\ h.marks = f.marks => Spent(Append(Under, h))
  BY <1>1, TopTyped
<1>3. /\ f.p.caller \in Address /\ f.p.addr \in Address /\ f.p.val \in Nat
      /\ f.p.ro \in BOOLEAN /\ f.gas \in Nat
  BY <1>2 DEF Frames, Params
<1>4. extra \in Nat /\ val \in Nat /\ req \in Nat /\ Stipend \in Nat
  BY CallAssumption
<1> HIDE DEF f, extra
<1>5. gas \in Nat
  BY <1>1, <1>3, <1>4
<1> HIDE DEF gas
<1>6. fwd \in Nat /\ gas - fwd \in Nat
  <2>1. fwd \in 0..gas
    BY <1>4, <1>5, ForwardedGas, Zenon
  <2> HIDE DEF fwd
  <2> QED
    BY <1>5, <2>1
<1> HIDE DEF fwd
<1>7. given \in Nat /\ gas - fwd + given <= f.gas
  <2>1. IF val = 0 THEN extra = 0 ELSE extra >= Stipend
    BY <1>4, CallAssumption DEF extra
  <2> QED
    BY <1>3, <1>4, <1>5, <1>6, <2>1 DEF gas
<1> HIDE DEF given
<1>8. p \in Params /\ p.gas = given
  BY <1>3, <1>4, <1>7 DEF Params
<1>9. p.ro => Silent(p)
  BY <1>0 DEF Silent
<1>10. (f.p.ro => p.ro) /\ p.kind # "create"
  OBVIOUS
<1>11. g \in Frames /\ g.p = f.p /\ g.marks = f.marks /\ g.gas = gas - fwd
  BY <1>2, <1>6 DEF Frames
<1> HIDE DEF p, g
<1>12. Spent(Append(Under, g)) /\ Affords(Append(Under, g), p.gas)
  BY <1>2, <1>7, <1>8, <1>11 DEF Affords, f
<1> QED
  BY <1>0, <1>1, <1>8, <1>9, <1>10, <1>12, Zenon DEF f

\* So opCall preserves the invariant.
LEMMA CallKeeps ==
  ASSUME FrameInv, NEW op \in {"call", "callcode", "delegatecall", "staticcall"},
         NEW to \in Address, NEW val \in Vals, NEW req \in Reqs, opCall(op, to, val, req)
  PROVE  FrameInv'
<1>1. phase = "running" /\ base' = base /\ begun' = begun
  BY CallRuns
<1>2. PICK under : \E p \in Params :
        /\ Spent(under) /\ Run(env, saved, under, p)
        /\ p.ro => Silent(p)
        /\ Top.p.ro => p.ro
  BY CallRuns, Zenon
<1>3. Later(env, env) /\ Same(env, env)
  BY DEF FrameInv, Shape, Same
<1> QED
  BY <1>1, <1>2, <1>3, RunKeeps

\* The environment opCreate goes on in: the creator's nonce is raised.
Raised == [env EXCEPT !.world = setNonce(env.world, Top.p.addr)]

\* opCreate, which a read-only frame may not run, finds the address taken, or runs
\* the creation above the running frames.
LEMMA CreateRuns ==
  ASSUME FrameInv, NEW to \in Address, NEW val \in Vals, opCreate(to, val)
  PROVE  /\ phase = "running" /\ base' = base /\ begun' = begun
         /\ ~Top.p.ro /\ Later(env, Raised)
         /\ \/ /\ Spent(frames') /\ Affords(frames', 0) /\ env' = Raised
               /\ UNCHANGED <<saved, result, phase, entry>>
            \/ \E under : \E p \in Params :
                 /\ Spent(under) /\ Affords(under, p.gas)
                 /\ Run(Raised, saved, under, p) /\ ~p.ro
                 /\ p.addr = to /\ ~codeOf(Raised.world, to)
<1> DEFINE f == Top
           gas == f.gas - CreateGas
           fwd == eip150(gas)
           w == setNonce(env.world, f.p.addr)
           e == [env EXCEPT !.world = w]
           p == [caller |-> f.p.addr, addr |-> to, codeAddr |-> to, val |-> val, gas |-> fwd,
                 ro |-> FALSE, kind |-> "create"]
           g == [f EXCEPT !.gas = gas - fwd]
           h == [f EXCEPT !.gas = gas]
<1>0. /\ Charged(CreateGas) /\ ~f.p.ro /\ base' = base /\ begun' = begun
      /\ \/ /\ env' = e /\ frames' = Append(Under, h)
            /\ UNCHANGED <<saved, result, phase, entry>>
         \/ Run(e, saved, Append(Under, g), p) /\ ~codeOf(e.world, to)
  BY DEF opCreate
<1>1. phase = "running" /\ f.gas >= CreateGas
  BY <1>0 DEF Charged
<1>2. f \in Frames /\ \A x \in Frames : x.p = f.p /\ x.marks = f.marks => Spent(Append(Under, x))
  BY <1>1, TopTyped
<1>3. f.p.addr \in Address /\ f.gas \in Nat /\ CreateGas \in Nat /\ val \in Nat
  BY <1>2, CallAssumption DEF Frames, Params
<1>4. Later(env, e)
  <2>1. Later(env, env) /\ env.world \in Worlds
    BY DEF FrameInv, Shape, Later, Envs
  <2>2. w \in Worlds
    BY <1>3, <2>1, SettersTyped
  <2> HIDE DEF w
  <2> QED
    BY <2>1, <2>2, LaterWorld
<1>e. e = Raised
  BY DEF Raised
<1> HIDE DEF f, e
<1>5. gas \in Nat /\ gas <= f.gas
  BY <1>1, <1>3
<1> HIDE DEF gas
<1>6. fwd \in Nat /\ gas - fwd \in Nat
  <2>1. 0 \in Nat
    OBVIOUS
  <2>2. fwd \in 0..gas
    BY <1>5, <2>1, ForwardedGas, Zenon
  <2> HIDE DEF fwd
  <2> QED
    BY <1>5, <2>2
<1> HIDE DEF fwd
<1>7. p \in Params /\ ~p.ro /\ p.addr = to /\ p.gas = fwd
  BY <1>3, <1>6 DEF Params
<1>8. /\ g \in Frames /\ g.p = f.p /\ g.marks = f.marks /\ g.gas = gas - fwd
      /\ h \in Frames /\ h.p = f.p /\ h.marks = f.marks /\ h.gas = gas
  BY <1>2, <1>5, <1>6 DEF Frames
<1> HIDE DEF p, g, h
<1>9. Spent(Append(Under, g)) /\ Spent(Append(Under, h))
  BY <1>2, <1>8
<1>10. Affords(Append(Under, g), p.gas) /\ Affords(Append(Under, h), 0)
  <2>1. g.gas + p.gas <= f.gas /\ h.gas + 0 <= f.gas
    BY <1>3, <1>5, <1>6, <1>7, <1>8
  <2> QED
    BY <1>8, <2>1 DEF Affords, f
<1> QED
  BY <1>0, <1>1, <1>4, <1>e, <1>7, <1>9, <1>10, Zenon DEF f

\* So opCreate preserves the invariant.
LEMMA CreateKeeps ==
  ASSUME FrameInv, NEW to \in Address, NEW val \in Vals, opCreate(to, val)
  PROVE  FrameInv'
<1>1. phase = "running" /\ base' = base /\ begun' = begun /\ ~Top.p.ro /\ Later(env, Raised)
  BY CreateRuns
<1>2. CASE /\ Spent(frames') /\ env' = Raised
           /\ UNCHANGED <<saved, result, phase, entry>>
  BY <1>1, <1>2, SpendKeeps
<1>3. ASSUME NEW under, NEW p \in Params, Spent(under), Run(Raised, saved, under, p), ~p.ro
      PROVE  FrameInv'
  <2> HIDE DEF Raised
  <2> QED
    BY <1>1, <1>3, RunKeeps
<1> QED
  BY <1>2, <1>3, CreateRuns, Zenon

\* SELFDESTRUCT: a read-only frame destroys nothing.
LEMMA SelfDestructKeeps ==
  ASSUME FrameInv, NEW to \in Address, SelfDestruct(to) PROVE FrameInv'
<1> DEFINE a == Top.p.addr
           bal == account(env.world, a).balance
           e == transfer(env, a, to, bal)
           w == IF a \in env.created.map THEN Delete(e.world, {a}) ELSE e.world
           d == [e EXCEPT !.world = w, !.suicided = Mark(e.suicided, a)]
<1>0. Charged(1) /\ ~Top.p.ro /\ Succeed(d, Top.gas - 1, FALSE)
  BY DEF SelfDestruct
<1>1. phase = "running" /\ Top.gas >= 1
  BY <1>0 DEF Charged
<1>2. a \in Address /\ Top.gas - 1 \in Nat
  BY <1>1, TopTyped DEF Frames, Params
<1>3. Later(env, env) /\ env.world \in Worlds
  BY DEF FrameInv, Shape, Later, Envs
<1> HIDE DEF a
<1>4. bal \in Nat /\ bal <= account(env.world, a).balance
  BY <1>2, <1>3, AccountTyped DEF Account
<1>5. Later(env, e)
  <2> HIDE DEF bal
  <2> QED
    BY <1>2, <1>3, <1>4, TransferLater
<1> HIDE DEF e
<1>6. e \in Envs /\ w \in Worlds
  BY <1>5, DeleteTyped DEF Later, Envs
<1> HIDE DEF w
<1>7. Later(env, d)
  <2> DEFINE x == [e EXCEPT !.suicided = Mark(e.suicided, a)]
  <2>1. Later(env, x)
    BY <1>2, <1>5, CreatedLater
  <2>2. Later(env, [x EXCEPT !.world = w])
    BY <1>6, <2>1, LaterWorld
  <2>3. d = [x EXCEPT !.world = w]
    BY <1>6 DEF Envs
  <2> QED
    BY <2>2, <2>3
<1> HIDE DEF d
<1> QED
  BY <1>0, <1>1, <1>2, <1>7, SucceedKeeps

\* The initial states satisfy the invariant.
LEMMA FrameInit ==
  Init => FrameInv
<1> SUFFICES ASSUME Init PROVE FrameInv
  OBVIOUS
<1> DEFINE none == [map |-> {}, journal |-> <<>>]
<1>1. none \in Journalled /\ none.map = {} /\ none.journal = <<>> /\ Len(none.journal) = 0
  BY DEF Journalled
<1>2. /\ env = [world |-> World0, logs |-> <<>>, touched |-> none, created |-> none,
                suicided |-> none]
      /\ saved = <<>> /\ frames = <<>> /\ phase = "ready" /\ begun = env /\ entry = <<>>
      /\ base = [rev |-> 0, logs |-> 0, touched |-> 0, created |-> 0, suicided |-> 0]
      /\ result = [ok |-> FALSE, left |-> 0]
  BY DEF Init
<1> HIDE DEF none
<1>3. Grows(none, none)
  <2>1. Sound(none)
    BY <1>1 DEF Sound
  <2> QED
    BY <1>1, <2>1 DEF Grows
<1>4. LogGrows(<<>>, <<>>)
  BY DEF LogGrows
<1>5. env \in Envs
  BY <1>1, <1>2, CallAssumption DEF Envs
<1>6. Later(env, env)
  BY <1>2, <1>3, <1>4, <1>5 DEF Later
<1>7. base \in MarkSet /\ result \in [ok : BOOLEAN, left : Nat]
  BY <1>2 DEF MarkSet
<1>8. TypeOK /\ Shape
  BY <1>2, <1>5, <1>6, <1>7 DEF TypeOK, Shape
<1>9. AllHeld /\ ReadOnly
  BY <1>2 DEF AllHeld, ReadOnly, Levels
<1> QED
  BY <1>8, <1>9 DEF FrameInv

\* Every opcode of a running frame preserves the invariant.
LEMMA StepKeeps ==
  ASSUME FrameInv, FrameStep PROVE FrameInv'
<1>0. Later(env, env) /\ Same(env, env)
  BY DEF FrameInv, Shape, Same
<1>1. CASE Compute
  <2>1. env' = env /\ Charged(1) /\ 1 \in Nat
    BY <1>1 DEF Compute
  <2> QED
    BY <1>0, <1>1, <2>1, OpcodeKeeps DEF Compute
<1>2. ASSUME NEW v \in BOOLEAN, SStore(v) PROVE FrameInv'
  <2>1. phase = "running"
    BY <1>2 DEF SStore, Writes, Charged
  <2> QED
    BY <1>2, <2>1, WrittenLater, WritesKeep DEF SStore
<1>3. ASSUME NEW v \in BOOLEAN, Return(v) PROVE FrameInv'
  <2>1. phase = "running" /\ Succeed(env, Top.gas, v)
    BY <1>3 DEF Return, Charged
  <2>2. Top.gas \in Nat
    BY <2>1, TopTyped DEF Frames
  <2> QED
    BY <1>0, <2>1, <2>2, SucceedKeeps
<1>4. CASE opLog
  <2>1. phase = "running"
    BY <1>4 DEF opLog, Writes, Charged
  <2> QED
    BY <1>4, <2>1, WrittenLater, WritesKeep DEF opLog
<1>5. CASE Revert
  <2>1. phase = "running" /\ Fail(Top.gas)
    BY <1>5 DEF Revert, Charged
  <2>2. Top.gas \in Nat
    BY <2>1, TopTyped DEF Frames
  <2> QED
    BY <2>1, <2>2, FailKeeps
<1>6. CASE Halt
  BY <1>6, FailKeeps DEF Halt, Charged
<1>7. ASSUME NEW op \in {"call", "callcode", "delegatecall", "staticcall"}, NEW to \in Address,
             NEW val \in Vals, NEW req \in Reqs, opCall(op, to, val, req)
      PROVE  FrameInv'
  BY <1>7, CallKeeps
<1>8. ASSUME NEW to \in Fresh, NEW val \in Vals, opCreate(to, val) PROVE FrameInv'
  <2>1. to \in Address
    BY CallAssumption
  <2> QED
    BY <1>8, <2>1, CreateKeeps
<1>9. ASSUME NEW to \in Address, SelfDestruct(to) PROVE FrameInv'
  BY <1>9, SelfDestructKeeps
<1> QED
  BY <1>1, <1>2, <1>3, <1>4, <1>5, <1>6, <1>7, <1>8, <1>9, Zenon DEF FrameStep

\* So does every step.
LEMMA FrameNext ==
  FrameInv /\ [Next]_vars => FrameInv'
<1> SUFFICES ASSUME FrameInv, [Next]_vars PROVE FrameInv'
  OBVIOUS
<1>1. ASSUME NEW to \in Address, NEW val \in Vals, NEW create \in BOOLEAN, BeginTx(to, val, create)
      PROVE  FrameInv'
  <2>1. val \in Nat
    BY CallAssumption
  <2> QED
    BY <1>1, <2>1, BeginKeeps
<1>2. CASE UNCHANGED vars
  <2>1. UNCHANGED <<env, saved, frames, base, result, phase, begun, entry>>
    BY <1>2 DEF vars
  <2>2. TypeOK' /\ Shape' /\ ReadOnly'
    BY <2>1 DEF FrameInv, TypeOK, Shape, ReadOnly
  <2>3. Levels' = Levels /\ \A i : MarksAt(i)' = MarksAt(i) /\ EntryAt(i)' = EntryAt(i)
    BY <2>1 DEF Levels, MarksAt, EntryAt
  <2>4. AllHeld'
    BY <2>1, <2>3 DEF FrameInv, AllHeld
  <2> QED
    BY <2>2, <2>4 DEF FrameInv
<1>3. Fresh \subseteq Address /\ TRUE \in BOOLEAN /\ FALSE \in BOOLEAN
  BY CallAssumption
<1>4. ASSUME NEW to \in Address, NEW val \in Vals, BeginTx(to, val, FALSE) PROVE FrameInv'
  BY <1>1, <1>3, <1>4, Zenon
<1>5. ASSUME NEW to \in Fresh, NEW val \in Vals, BeginTx(to, val, TRUE) PROVE FrameInv'
  BY <1>1, <1>3, <1>5, Zenon
<1>6. CASE FrameStep
  BY <1>6, StepKeeps
<1>7. CASE EndTx
  BY <1>7, EndKeeps
<1> QED
  BY <1>2, <1>4, <1>5, <1>6, <1>7, Zenon DEF Next

-----------------------------------------------------------------------------
\* The results.

\* The inductive invariant holds of every reachable state of the call frames of
\* call_context.go.
THEOREM FrameInvariance == Spec => []FrameInv
BY FrameInit, FrameNext, PTL DEF Spec

\* Type correctness of the call frames: in particular no frame's gas and no balance
\* goes below zero, whatever opCall, opCreate and transfer deduct.
THEOREM CallTypeCorrect == Spec => []TypeOK
<1>1. FrameInv => TypeOK
  BY DEF FrameInv
<1> QED
  BY <1>1, FrameInvariance, PTL

\* The failure of any running frame, or of the transaction, restores exactly what it
\* found, whatever the frames it called have done and however they ended: the
\* snapshot and the marks that run and ProcessTransaction take are never overtaken.
THEOREM FailureRestores == Spec => []Restorable
<1>1. FrameInv => Restorable
  <2> SUFFICES ASSUME FrameInv PROVE Restorable
    OBVIOUS
  <2>0. Len(frames) \in Nat
    BY DEF FrameInv, TypeOK
  <2>1. \A i \in Levels : Restored(env, saved, MarksAt(i)) = EntryAt(i)
    BY HeldRestores DEF FrameInv, AllHeld
  <2>2. phase \in {"running", "ran"} => Restored(env, saved, base) = begun
    BY <2>0, <2>1 DEF Levels, MarksAt, EntryAt
  <2>3. ASSUME NEW i \in 1..Len(frames) PROVE Restored(env, saved, frames[i].marks) = entry[i]
    <3>1. phase = "running"
      BY <2>0 DEF FrameInv, Shape
    <3>2. i \in Levels /\ i # 0
      BY <2>0, <3>1 DEF Levels
    <3> QED
      BY <2>1, <3>2 DEF MarksAt, EntryAt
  <2> QED
    BY <2>2, <2>3 DEF Restorable
<1> QED
  BY <1>1, FrameInvariance, PTL

\* While a STATICCALL runs, neither it nor anything it calls, at any depth, changes
\* the state, the logs or the created and self-destructed accounts.
THEOREM StaticCallsOnlyRead == Spec => []StaticIsReadOnly
<1>1. FrameInv => StaticIsReadOnly
  BY DEF FrameInv, ReadOnly, StaticIsReadOnly, Same
<1> QED
  BY <1>1, FrameInvariance, PTL

-----------------------------------------------------------------------------
\* The account had code before the transaction.
Old(a) == account(World0, a).code

\* e leaves every old contract its code, and counts none as created.
Kept(e) == \A a \in Address : Old(a) => account(e.world, a).code /\ a \notin e.created.map

\* Storage without an account is in the set that the sweep goes through.
Watched(e) ==
  \A a \in Address : e.world.slot[a] /\ e.world.acc[a] = NoAccount => a \in e.touched.map

\* The coins of the world e has are those the transaction began with, less what was
\* left in accounts it both created and destroyed.
Solvent(e) ==
  /\ Total(e.world) <= Total(World0)
  /\ e.created.map \cap e.suicided.map = {} => Total(e.world) = Total(World0)

Fit(e) == Kept(e) /\ Watched(e) /\ Solvent(e)

\* Every environment there is to go back to is fit, and in each of them the
\* accounts whose frames were running are touched: they may still write storage.
\* No frame creates an account over an old contract.
StateInv ==
  /\ Fit(env) /\ Fit(begun)
  /\ \A i \in 1..Len(entry) : Fit(entry[i])
  /\ \A i \in 1..Len(frames) : frames[i].p.addr \in env.touched.map
  /\ \A i, j \in 1..Len(frames) : i < j => frames[i].p.addr \in entry[j].touched.map
  /\ \A i \in 1..Len(frames) : frames[i].p.kind = "create" => ~Old(frames[i].p.addr)
  /\ NoOrphanStorage

-----------------------------------------------------------------------------
\* What the operations of the environment do to the accounts.

\* An account that was inserted stays while insertions are added.
LEMMA MapsGrow ==
  ASSUME NEW s, NEW t, Grows(s, t) PROVE s.map \subseteq t.map
<1>1. ASSUME NEW i \in 1..Len(s.journal) PROVE s.journal[i] \in t.map
  <2>1. i \in 1..Len(t.journal) /\ t.journal[i] = s.journal[i]
    BY DEF Grows, Sound, Journalled
  <2> QED
    BY <2>1 DEF Grows, Sound
<1> QED
  BY <1>1 DEF Grows, Sound

\* An insertion adds one account.
LEMMA MarkAdds ==
  ASSUME NEW s, Sound(s), NEW a \in Address
  PROVE  Mark(s, a).map = s.map \cup {a} /\ Sound(Mark(s, a))
<1>1. Mark(s, a).map = s.map \cup {a}
  BY DEF Mark
<1>2. Grows(s, Mark(s, a))
  BY MarkGrows
<1> QED
  BY <1>1, <1>2 DEF Grows

\* v is w with accounts written that lose no code, and no storage written.
Holds(w, v) ==
  \A a \in Address : /\ account(w, a).code => account(v, a).code
                     /\ v.slot[a] /\ v.acc[a] = NoAccount => w.slot[a] /\ w.acc[a] = NoAccount

\* Such writes compose.
LEMMA HoldsTransitive ==
  ASSUME NEW w, NEW v, NEW u, Holds(w, v), Holds(v, u) PROVE Holds(w, u) /\ Holds(w, w)
BY DEF Holds

\* An account that is written.
LEMMA SetAccWrites ==
  ASSUME NEW w \in Worlds, NEW a \in Address, NEW acc \in Account
  PROVE  /\ account(setAcc(w, a, acc), a) = acc
         /\ setAcc(w, a, acc).acc[a] # NoAccount
         /\ setAcc(w, a, acc).slot = w.slot
         /\ \A b \in Address \ {a} : /\ setAcc(w, a, acc).acc[b] = w.acc[b]
                                     /\ account(setAcc(w, a, acc), b) = account(w, b)
<1>1. NoAccount \notin Account
  BY CallAssumption
<1> DEFINE v == setAcc(w, a, acc)
<1>2. v.slot = w.slot /\ v.acc = [w.acc EXCEPT ![a] = acc] /\ w.acc \in [Address -> Account \cup {NoAccount}]
  BY DEF setAcc, Worlds
<1> HIDE DEF v
<1>3. v.acc[a] = acc /\ \A b \in Address \ {a} : v.acc[b] = w.acc[b]
  BY <1>2
<1>4. acc # NoAccount
  BY <1>1
<1>5. account(v, a) = acc /\ \A b \in Address \ {a} : account(v, b) = account(w, b)
  BY <1>3, <1>4 DEF account
<1> QED
  BY <1>2, <1>3, <1>4, <1>5 DEF v

\* A deletion clears the storage of the accounts, and leaves the others alone.
LEMMA DeleteWrites ==
  ASSUME NEW w \in Worlds, NEW A, NEW a \in Address
  PROVE  /\ Delete(w, A).slot[a] => a \notin A
         /\ a \notin A => Delete(w, A).slot[a] = w.slot[a] /\ Delete(w, A).acc[a] = w.acc[a]
<1>1. w.slot[a] \in BOOLEAN
  BY DEF Worlds
<1>2. Delete(w, A).slot[a] = (a \notin A /\ w.slot[a])
  BY DEF Delete
<1>3. Delete(w, A).acc[a] = IF a \in A THEN NoAccount ELSE w.acc[a]
  BY DEF Delete
<1> QED
  BY <1>1, <1>2, <1>3

\* A nonce and a balance lose no code.
LEMMA SettersHold ==
  ASSUME NEW w \in Worlds, NEW a \in Address, NEW bal \in Nat
  PROVE  Holds(w, setNonce(w, a)) /\ Holds(w, setBalance(w, a, bal))
<1> DEFINE acc == account(w, a)
<1>1. acc \in Account
  BY AccountTyped
<1>2. ASSUME NEW x \in Account, x.code = acc.code PROVE Holds(w, setAcc(w, a, x))
  BY <1>2, SetAccWrites DEF Holds
<1> HIDE DEF acc
<1>3. /\ [acc EXCEPT !.nonce = TRUE] \in Account /\ [acc EXCEPT !.nonce = TRUE].code = acc.code
      /\ [acc EXCEPT !.balance = bal] \in Account /\ [acc EXCEPT !.balance = bal].code = acc.code
  BY <1>1 DEF Account
<1> QED
  BY <1>2, <1>3 DEF setNonce, setBalance, acc

\* Neither does a transfer that the sender can pay.
LEMMA MovedHolds ==
  ASSUME NEW w \in Worlds, NEW from \in Address, NEW to \in Address, NEW v \in Nat,
         v = 0 \/ v <= account(w, from).balance
  PROVE  Holds(w, Moved(w, from, to, v))
<1>1. CASE v = 0
  BY <1>1 DEF Moved, Holds
<1>2. CASE v # 0
  <2> DEFINE left == account(w, from).balance - v
             paid == setBalance(w, from, left)
             sum == account(paid, to).balance + v
  <2>1. left \in Nat
    BY <1>2, AccountTyped DEF Account
  <2> HIDE DEF left
  <2>2. paid \in Worlds /\ Holds(w, paid)
    BY <2>1, SettersTyped, SettersHold
  <2> HIDE DEF paid
  <2>3. sum \in Nat
    BY <2>2, AccountTyped DEF Account
  <2> HIDE DEF sum
  <2>4. Holds(paid, setBalance(paid, to, sum))
    BY <2>2, <2>3, SettersHold
  <2>5. Holds(w, setBalance(paid, to, sum))
    BY <2>2, <2>4, HoldsTransitive
  <2> QED
    BY <1>2, <2>5 DEF Moved, paid, left, sum
<1> QED
  BY <1>1, <1>2

-----------------------------------------------------------------------------
\* Sums of balances.

\* The balances of a world.
Balances(w) == [a \in Address |-> account(w, a).balance]

\* The total is a sum of natural numbers over a finite set.
LEMMA TotalSums ==
  ASSUME NEW w \in Worlds
  PROVE  /\ Total(w) = Over(Balances(w), Address)
         /\ IsFiniteSet(Address) /\ Total(w) \in Nat
         /\ \A a \in Address : /\ Balances(w)[a] = account(w, a).balance
                               /\ Balances(w)[a] \in Nat /\ Balances(w)[a] \in Int
<1>1. Total(w) = Over(Balances(w), Address)
  BY DEF Total, Over, Balances
<1>2. \A a \in Address : Balances(w)[a] = account(w, a).balance /\ Balances(w)[a] \in Nat
  BY AccountTyped DEF Balances, Account
<1>3. IsFiniteSet(Address)
  BY AddressAssumption
<1>4. Over(Balances(w), Address) \in Nat
  BY <1>2, <1>3, SumBounds
<1> QED
  BY <1>1, <1>2, <1>3, <1>4

\* A write changes the total by what it changes the account's balance.
LEMMA WriteTotal ==
  ASSUME NEW w \in Worlds, NEW a \in Address, NEW acc \in Account
  PROVE  Total(setAcc(w, a, acc)) = Total(w) + acc.balance - account(w, a).balance
<1> DEFINE v == setAcc(w, a, acc)
<1>1. v \in Worlds
  BY SetAccTyped
<1>2. account(v, a) = acc /\ \A b \in Address \ {a} : account(v, b) = account(w, b)
  BY SetAccWrites
<1> HIDE DEF v
<1>3. \A b \in Address \ {a} : Balances(v)[b] = Balances(w)[b]
  BY <1>1, <1>2, TotalSums
<1>4. \A b \in Address : Balances(w)[b] \in Int /\ Balances(v)[b] \in Int
  BY <1>1, TotalSums
<1>5. Over(Balances(v), Address)
        = Over(Balances(w), Address) + Balances(v)[a] - Balances(w)[a]
  BY <1>3, <1>4, AddressAssumption, SumUpdate
<1>6. Total(v) = Total(w) + acc.balance - account(w, a).balance
  BY <1>1, <1>2, <1>5, TotalSums
<1> QED
  BY <1>6 DEF v

\* A nonce and a code leave the total alone; a balance does not.
LEMMA SettersTotal ==
  ASSUME NEW w \in Worlds, NEW a \in Address
  PROVE  /\ Total(setNonce(w, a)) = Total(w)
         /\ \A code \in BOOLEAN : Total(setCode(w, a, code)) = Total(w)
         /\ \A bal \in Nat : /\ Total(setBalance(w, a, bal))
                                = Total(w) + bal - account(w, a).balance
                            /\ account(setBalance(w, a, bal), a).balance = bal
<1> DEFINE acc == account(w, a)
           raised == [acc EXCEPT !.nonce = TRUE]
<1>1. acc \in Account /\ acc.balance \in Nat /\ Total(w) \in Nat
  BY AccountTyped, TotalSums DEF Account
<1> HIDE DEF acc
<1>2. raised \in Account /\ raised.balance = acc.balance
  BY <1>1 DEF Account
<1>3. Total(setNonce(w, a)) = Total(w)
  <2>1. setNonce(w, a) = setAcc(w, a, raised)
    BY DEF setNonce, acc
  <2> HIDE DEF raised
  <2>2. Total(setAcc(w, a, raised)) = Total(w) + raised.balance - acc.balance
    BY <1>2, WriteTotal DEF acc
  <2> QED
    BY <1>1, <1>2, <2>1, <2>2
<1>4. ASSUME NEW code \in BOOLEAN PROVE Total(setCode(w, a, code)) = Total(w)
  <2> DEFINE x == [acc EXCEPT !.code = code]
  <2>1. x \in Account /\ x.balance = acc.balance
    BY <1>1 DEF Account
  <2>2. setCode(w, a, code) = setAcc(w, a, x)
    BY DEF setCode, acc
  <2> HIDE DEF x
  <2>3. Total(setAcc(w, a, x)) = Total(w) + x.balance - acc.balance
    BY <2>1, WriteTotal DEF acc
  <2> QED
    BY <1>1, <2>1, <2>2, <2>3
<1>5. ASSUME NEW bal \in Nat
      PROVE  /\ Total(setBalance(w, a, bal)) = Total(w) + bal - acc.balance
             /\ account(setBalance(w, a, bal), a).balance = bal
  <2> DEFINE x == [acc EXCEPT !.balance = bal]
  <2>1. x \in Account /\ x.balance = bal
    BY <1>1 DEF Account
  <2>2. setBalance(w, a, bal) = setAcc(w, a, x)
    BY DEF setBalance, acc
  <2> HIDE DEF x
  <2>3. Total(setAcc(w, a, x)) = Total(w) + x.balance - acc.balance
    BY <2>1, WriteTotal DEF acc
  <2>4. account(setAcc(w, a, x), a) = x
    BY <2>1, SetAccWrites
  <2> QED
    BY <2>1, <2>2, <2>3, <2>4
<1> QED
  BY <1>3, <1>4, <1>5 DEF acc

\* What a transfer takes from one account it gives to the other, be it the same.
LEMMA MovedTotal ==
  ASSUME NEW w \in Worlds, NEW from \in Address, NEW to \in Address, NEW v \in Nat,
         v = 0 \/ v <= account(w, from).balance
  PROVE  Total(Moved(w, from, to, v)) = Total(w)
<1>1. CASE v = 0
  BY <1>1 DEF Moved
<1>2. CASE v # 0
  <2> DEFINE left == account(w, from).balance - v
             paid == setBalance(w, from, left)
             sum == account(paid, to).balance + v
  <2>1. left \in Nat /\ account(w, from).balance \in Nat /\ Total(w) \in Nat
    BY <1>2, AccountTyped, TotalSums DEF Account
  <2>2. account(w, from).balance = left + v
    BY <2>1
  <2> HIDE DEF left
  <2>3. paid \in Worlds /\ Total(paid) = Total(w) + left - account(w, from).balance
    BY <2>1, SettersTyped, SettersTotal
  <2> HIDE DEF paid
  <2>4. account(paid, to).balance \in Nat
    BY <2>3, AccountTyped DEF Account
  <2>5. sum \in Nat /\ sum = account(paid, to).balance + v
    BY <2>4
  <2> HIDE DEF sum
  <2>6. Total(setBalance(paid, to, sum)) = Total(paid) + sum - account(paid, to).balance
    BY <2>3, <2>5, SettersTotal
  <2>7. Total(setBalance(paid, to, sum)) = Total(w)
    BY <2>1, <2>2, <2>3, <2>4, <2>5, <2>6
  <2> QED
    BY <1>2, <2>7 DEF Moved, paid, left, sum
<1> QED
  BY <1>1, <1>2

\* A deletion loses what the accounts had.
LEMMA DeleteTotal ==
  ASSUME NEW w \in Worlds, NEW A
  PROVE  /\ Total(Delete(w, A)) <= Total(w)
         /\ (\A a \in A \cap Address : account(w, a).balance = 0)
              => Total(Delete(w, A)) = Total(w)
<1> DEFINE v == Delete(w, A)
<1>1. v \in Worlds
  BY DeleteTyped
<1>2. \A a \in Address : v.acc[a] = IF a \in A THEN NoAccount ELSE w.acc[a]
  BY DEF Delete
<1> HIDE DEF v
<1>3. \A a \in Address : Balances(v)[a] = IF a \in A THEN 0 ELSE Balances(w)[a]
  <2>1. \A a \in Address : account(v, a).balance = IF a \in A THEN 0 ELSE account(w, a).balance
    BY <1>2 DEF account
  <2> QED
    BY <1>1, <2>1, TotalSums
<1>4. \A a \in Address : Balances(w)[a] \in Nat
  BY TotalSums
<1>5. \A a \in Address : /\ Balances(v)[a] \in Int /\ Balances(w)[a] \in Int
                         /\ Balances(v)[a] <= Balances(w)[a]
  BY <1>3, <1>4
<1>6. Over(Balances(v), Address) <= Over(Balances(w), Address)
  BY <1>5, AddressAssumption, SumMonotone
<1>7. ASSUME \A a \in A \cap Address : account(w, a).balance = 0
      PROVE  Over(Balances(v), Address) = Over(Balances(w), Address)
  <2>1. \A a \in Address : Balances(v)[a] \in Int /\ Balances(v)[a] = Balances(w)[a]
    BY <1>3, <1>5, <1>7, TotalSums
  <2> QED
    BY <2>1, AddressAssumption, SumCongruence
<1>8. Total(v) = Over(Balances(v), Address) /\ Total(w) = Over(Balances(w), Address)
  BY <1>1, TotalSums
<1> QED
  BY <1>6, <1>7, <1>8 DEF v

-----------------------------------------------------------------------------
\* Fit environments.

\* An environment that moves on stays solvent if it keeps the total.
LEMMA SolventLater ==
  ASSUME NEW e, NEW f, Solvent(e), Later(e, f), Total(f.world) = Total(e.world)
  PROVE  Solvent(f)
<1>1. e.created.map \subseteq f.created.map /\ e.suicided.map \subseteq f.suicided.map
  BY MapsGrow DEF Later
<1> QED
  BY <1>1 DEF Solvent

\* An environment stays fit when it moves on by writes that lose no code and no coins
\* and counts no old contract as created.
LEMMA FitLater ==
  ASSUME NEW e, NEW f, Fit(e), Later(e, f), Holds(e.world, f.world),
         Total(f.world) = Total(e.world),
         \A a \in f.created.map : a \in e.created.map \/ ~Old(a)
  PROVE  Fit(f)
<1>1. e.touched.map \subseteq f.touched.map
  BY MapsGrow DEF Later
<1>2. Kept(f)
  BY DEF Fit, Kept, Holds, Old
<1>3. Watched(f)
  BY <1>1 DEF Fit, Watched, Holds
<1>4. Solvent(f)
  BY SolventLater DEF Fit
<1> QED
  BY <1>2, <1>3, <1>4 DEF Fit

\* Touching accounts and moving a balance.
LEMMA TransferFit ==
  ASSUME NEW e, Fit(e), Later(e, e), NEW from \in Address, NEW to \in Address, NEW v \in Nat,
         v = 0 \/ v <= account(e.world, from).balance
  PROVE  /\ Fit(transfer(e, from, to, v))
         /\ transfer(e, from, to, v).created = e.created
<1> DEFINE f == transfer(e, from, to, v)
<1>1. Later(e, f) /\ f.world = Moved(e.world, from, to, v)
  BY TransferLater
<1>2. e.world \in Worlds /\ e \in Envs
  BY DEF Later, Envs
<1>3. Holds(e.world, f.world) /\ Total(f.world) = Total(e.world)
  BY <1>1, <1>2, MovedHolds, MovedTotal
<1>4. f.created = e.created
  BY <1>2 DEF transfer, Touch, Envs
<1> HIDE DEF f
<1>5. Fit(f)
  BY <1>1, <1>3, <1>4, FitLater
<1> QED
  BY <1>4, <1>5 DEF f

\* run's first lines: the account the frame runs in is touched, and created only
\* where no old contract is.
LEMMA PrologueFit ==
  ASSUME NEW e, Fit(e), Later(e, e), NEW p \in Params, p.kind = "create" => ~Old(p.addr)
  PROVE  Fit(Prologue(e, p)) /\ p.addr \in Prologue(e, p).touched.map
<1> DEFINE f == Prologue(e, p)
           t == Touch(e, p.caller, p.addr)
<1>0. p.caller \in Address /\ p.addr \in Address /\ e \in Envs
  BY DEF Params, Later
<1>1. Later(e, f) /\ f.world = e.world
  BY PrologueLater
<1>2. Sound(e.touched) /\ Sound(e.created)
  BY DEF Later, Grows
<1>3. /\ t \in Envs /\ t.created = e.created
      /\ t.touched = Mark(Mark(e.touched, p.caller), p.addr)
  <2>1. Later(e, t)
    BY <1>0, TouchLater
  <2> QED
    BY <1>0, <2>1 DEF Later, Touch, Envs
<1>4. p.addr \in t.touched.map
  <2>1. Sound(Mark(e.touched, p.caller))
    BY <1>0, <1>2, MarkAdds
  <2>2. Mark(Mark(e.touched, p.caller), p.addr).map = Mark(e.touched, p.caller).map \cup {p.addr}
    BY <1>0, <2>1, MarkAdds
  <2> QED
    BY <1>3, <2>2
<1> HIDE DEF t
<1>5. f.touched = t.touched /\ \A a \in f.created.map : a \in e.created.map \/ ~Old(a)
  <2>1. CASE p.kind = "create"
    <3>1. f = [t EXCEPT !.created = Mark(e.created, p.addr)]
      BY <2>1 DEF Prologue, t
    <3>2. f.touched = t.touched /\ f.created = Mark(e.created, p.addr)
      BY <1>3, <3>1 DEF Envs
    <3>3. f.created.map = e.created.map \cup {p.addr}
      BY <1>0, <1>2, <3>2, MarkAdds
    <3> QED
      BY <2>1, <3>2, <3>3
  <2>2. CASE p.kind # "create"
    <3>1. f = t
      BY <2>2 DEF Prologue, t
    <3> QED
      BY <1>3, <3>1
  <2> QED
    BY <2>1, <2>2
<1> HIDE DEF f
<1>6. Holds(e.world, f.world)
  BY <1>1 DEF Holds
<1>7. Fit(f)
  BY <1>1, <1>5, <1>6, FitLater
<1> QED
  BY <1>4, <1>5, <1>7 DEF f

\* Entering a frame.
LEMMA EnteredFit ==
  ASSUME NEW e, Fit(e), Later(e, e), NEW p \in Params, p.kind = "create" => ~Old(p.addr),
         p.kind = "delegate" \/ Pays(e, p)
  PROVE  Fit(Entered(e, p)) /\ p.addr \in Entered(e, p).touched.map
<1> DEFINE f == Prologue(e, p)
<1>1. Fit(f) /\ p.addr \in f.touched.map
  BY PrologueFit
<1>2. Later(e, f) /\ f.world = e.world /\ Later(f, f)
  BY PrologueLater, LaterReflexive
<1>3. p.caller \in Address /\ p.addr \in Address /\ p.val \in Nat
  BY DEF Params
<1>4. CASE p.kind = "delegate"
  BY <1>1, <1>4 DEF Entered
<1>5. CASE p.kind # "delegate"
  <2> DEFINE g == transfer(f, p.caller, p.addr, p.val)
  <2>1. p.val = 0 \/ p.val <= account(f.world, p.caller).balance
    BY <1>2, <1>5 DEF Pays
  <2> HIDE DEF f
  <2>2. Fit(g) /\ Later(f, g)
    BY <1>1, <1>2, <1>3, <2>1, TransferFit, TransferLater
  <2> HIDE DEF g
  <2>3. f.touched.map \subseteq g.touched.map
    BY <2>2, MapsGrow DEF Later
  <2>4. Fit(g) /\ p.addr \in g.touched.map
    BY <1>1, <2>2, <2>3
  <2> QED
    BY <1>5, <2>4 DEF Entered, f, g
<1> QED
  BY <1>4, <1>5

\* run leads from a fit environment to a fit one, in which the account of the frame
\* it enters is touched.
LEMMA RunFit ==
  ASSUME NEW e, Fit(e), Later(e, e), NEW snaps \in Seq(Worlds), NEW under, NEW p \in Params,
         p.kind = "create" => ~Old(p.addr), Run(e, snaps, under, p)
  PROVE  /\ Fit(env')
         /\ \/ \E left \in Nat, ok \in BOOLEAN : Answer(under, left, ok)
            \/ /\ frames' = Append(under, [p |-> p, gas |-> p.gas, marks |-> Marks(e, snaps)])
               /\ entry' = Append(SubSeq(entry, 1, Len(under)), e)
               /\ phase' = "running"
               /\ p.addr \in env'.touched.map
<1>0. p.gas \in Nat
  BY DEF Params
<1>u. ASSUME NEW left \in Nat, RunUndone(e, snaps, under, p, left)
      PROVE  Fit(env') /\ \E l \in Nat, ok \in BOOLEAN : Answer(under, l, ok)
  <2>1. Held(Marks(e, snaps), e, Append(snaps, e.world), Prologue(e, p))
    BY PrologueLater, MarksHold
  <2>2. env' = e /\ Answer(under, left, FALSE)
    BY <1>u, <2>1, HeldRestores DEF RunUndone
  <2> QED
    BY <2>2, Zenon
<1>1. CASE Len(under) >= MaxDepth
  <2>1. env' = e /\ Answer(under, p.gas, FALSE)
    BY <1>1, Zenon DEF Run
  <2> QED
    BY <1>0, <2>1, Zenon
<1>2. CASE ~(Len(under) >= MaxDepth) /\ p.kind # "delegate" /\ ~Pays(e, p)
  <2>1. RunUndone(e, snaps, under, p, p.gas)
    BY <1>2, Zenon DEF Run
  <2> QED
    BY <1>0, <1>u, <2>1, Zenon
<1>3. CASE ~(Len(under) >= MaxDepth) /\ ~(p.kind # "delegate" /\ ~Pays(e, p))
  <2>0. Fit(Entered(e, p)) /\ p.addr \in Entered(e, p).touched.map
    BY <1>3, EnteredFit
  <2>1. \/ RunUndone(e, snaps, under, p, 0)
        \/ \E left \in 0..p.gas : RunDone(e, snaps, under, p, left)
        \/ RunDone(e, snaps, under, p, p.gas)
        \/ /\ env' = Entered(e, p)
           /\ frames' = Append(under, [p |-> p, gas |-> p.gas, marks |-> Marks(e, snaps)])
           /\ entry' = Append(SubSeq(entry, 1, Len(under)), e)
           /\ phase' = "running"
    BY <1>3, Zenon DEF Run
  <2>2. ASSUME NEW left \in Nat, RunDone(e, snaps, under, p, left)
        PROVE  Fit(env') /\ \E l \in Nat, ok \in BOOLEAN : Answer(under, l, ok)
    <3>1. env' = Entered(e, p) /\ Answer(under, left, TRUE)
      BY <2>2 DEF RunDone
    <3> QED
      BY <2>0, <3>1, Zenon
  <2>3. 0 \in Nat /\ \A left \in 0..p.gas : left \in Nat
    BY <1>0
  <2> QED
    BY <1>0, <1>u, <2>0, <2>1, <2>2, <2>3, Zenon
<1> QED
  BY <1>1, <1>2, <1>3

-----------------------------------------------------------------------------
\* The steps.

\* Frames may end and the environment may change, if it stays fit and the accounts
\* of the frames that are left are touched in it.
LEMMA LeaveKeeps ==
  ASSUME FrameInv, StateInv, NEW n \in 0..Len(frames), Len(frames') = n,
         \A i \in 1..n : frames'[i].p = frames[i].p,
         entry' = SubSeq(entry, 1, n), begun' = begun, phase' # "swept",
         Fit(env'), \A i \in 1..n : frames[i].p.addr \in env'.touched.map
  PROVE  StateInv'
<1>0. entry \in Seq(Envs) /\ Len(entry) = Len(frames) /\ Len(frames) \in Nat /\ n \in Nat
  BY DEF FrameInv, TypeOK, Shape
<1>1. Len(entry') = n /\ \A i \in 1..n : entry'[i] = entry[i] /\ i \in 1..Len(frames)
  BY <1>0
<1>2. NoOrphanStorage'
  BY DEF NoOrphanStorage
<1>3. Fit(begun)' /\ Fit(env)'
  BY DEF StateInv
<1>4. \A i \in 1..Len(entry') : Fit(entry'[i])
  BY <1>0, <1>1 DEF StateInv
<1>5. \A i \in 1..n : frames'[i].p.addr \in env'.touched.map
  OBVIOUS
<1>6. \A i, j \in 1..n : i < j => frames'[i].p.addr \in entry'[j].touched.map
  BY <1>1 DEF StateInv
<1>7. \A i \in 1..n : frames'[i].p.kind = "create" => ~Old(frames'[i].p.addr)
  BY <1>1 DEF StateInv
<1> QED
  BY <1>2, <1>3, <1>4, <1>5, <1>6, <1>7 DEF StateInv

\* So may the environment move on while innermost frames end.
LEMMA MoveOnKeeps ==
  ASSUME FrameInv, StateInv, NEW n \in 0..Len(frames), Len(frames') = n,
         \A i \in 1..n : frames'[i].p = frames[i].p,
         entry' = SubSeq(entry, 1, n), begun' = begun, phase' # "swept",
         Fit(env'), Later(env, env')
  PROVE  StateInv'
<1>1. env.touched.map \subseteq env'.touched.map
  BY MapsGrow DEF Later
<1>2. \A i \in 1..n : i \in 1..Len(frames)
  BY DEF FrameInv, TypeOK
<1>3. \A i \in 1..n : frames[i].p.addr \in env'.touched.map
  BY <1>1, <1>2 DEF StateInv
<1> QED
  BY <1>3, LeaveKeeps

\* A step that only spends gas and moves the environment on.
LEMMA SpendFit ==
  ASSUME FrameInv, StateInv, phase = "running", Spent(frames'), Later(env, env'), Fit(env'),
         UNCHANGED <<phase, begun, entry>>
  PROVE  StateInv'
<1>1. Len(frames) \in Nat /\ entry \in Seq(Envs) /\ Len(entry) = Len(frames)
  BY DEF FrameInv, TypeOK, Shape
<1>2. Len(frames) \in 0..Len(frames) /\ entry' = SubSeq(entry, 1, Len(frames)) /\ begun' = begun
  BY <1>1
<1>3. Len(frames') = Len(frames) /\ \A i \in 1..Len(frames) : frames'[i].p = frames[i].p
  BY DEF Spent
<1>4. phase' # "swept"
  OBVIOUS
<1> QED
  BY <1>2, <1>3, <1>4, MoveOnKeeps

\* A call of run from the innermost frame.
LEMMA RunLeavesFit ==
  ASSUME FrameInv, StateInv, phase = "running", NEW e, Later(env, e), Fit(e),
         NEW under, Spent(under), NEW p \in Params, p.kind = "create" => ~Old(p.addr),
         Run(e, saved, under, p), begun' = begun
  PROVE  StateInv'
<1> DEFINE n == Len(frames)
<1>0. /\ saved \in Seq(Worlds) /\ entry \in Seq(Envs) /\ Len(entry) = n /\ n \in Nat /\ TypeOK
      /\ Len(under) = n /\ under \in Seq(Frames) /\ \A i \in 1..n : under[i].p = frames[i].p
  BY DEF FrameInv, TypeOK, Shape, Spent
<1>1. Later(e, e)
  BY LaterReflexive
<1>2. Later(env, env')
  BY <1>0, <1>1, RunOutcome, LaterTransitive
<1>3. Fit(env')
  BY <1>0, <1>1, RunFit
<1>4. ASSUME NEW left \in Nat, NEW ok \in BOOLEAN, Answer(under, left, ok) PROVE StateInv'
  <2>1. /\ Len(frames') = n /\ \A i \in 1..n : frames'[i].p = under[i].p
        /\ entry' = SubSeq(entry, 1, n)
        /\ phase' = IF n = 0 THEN "ran" ELSE "running"
    BY <1>0, <1>4, AnswerOutcome
  <2>2. n \in 0..n /\ phase' # "swept" /\ \A i \in 1..n : frames'[i].p = frames[i].p
    BY <1>0, <2>1
  <2> QED
    BY <1>2, <1>3, <2>1, <2>2, MoveOnKeeps
<1> DEFINE f == [p |-> p, gas |-> p.gas, marks |-> Marks(e, saved)]
<1>5. ASSUME frames' = Append(under, f), entry' = Append(SubSeq(entry, 1, Len(under)), e),
             phase' = "running", p.addr \in env'.touched.map
      PROVE  StateInv'
  <2>0. f.p = p
    OBVIOUS
  <2> HIDE DEF f
  <2>1. /\ Len(frames') = n + 1 /\ frames'[n + 1] = f
        /\ \A i \in 1..n : frames'[i] = under[i]
    BY <1>0, <1>5
  <2>2. SubSeq(entry, 1, Len(under)) = entry
    BY <1>0
  <2>3. /\ Len(entry') = n + 1 /\ entry'[n + 1] = e
        /\ \A i \in 1..n : entry'[i] = entry[i]
    BY <1>0, <1>5, <2>2
  <2>4. \A i \in 1..n : frames'[i].p = frames[i].p
    BY <1>0, <2>1
  <2>5. e.touched.map \subseteq env'.touched.map /\ env.touched.map \subseteq e.touched.map
    BY <1>0, <1>1, RunOutcome, MapsGrow DEF Later
  <2> HIDE DEF n
  <2>6. \A i \in 1..(n + 1) : i \in 1..n \/ i = n + 1
    BY <1>0
  <2>7. \A i \in 1..n : frames[i].p.addr \in env.touched.map
    BY DEF StateInv, n
  <2>8. \A i \in 1..(n + 1) : Fit(entry'[i])
    BY <1>0, <2>3, <2>6 DEF StateInv
  <2>9. \A i \in 1..(n + 1) : frames'[i].p.addr \in env'.touched.map
    BY <1>5, <2>0, <2>1, <2>4, <2>5, <2>6, <2>7
  <2>10. ASSUME NEW i \in 1..(n + 1), NEW j \in 1..(n + 1), i < j
         PROVE  frames'[i].p.addr \in entry'[j].touched.map
    <3>1. i \in 1..n
      BY <1>0, <2>10
    <3>2. CASE j \in 1..n
      BY <2>3, <2>4, <2>10, <3>1, <3>2 DEF StateInv, n
    <3>3. CASE j = n + 1
      BY <2>3, <2>4, <2>5, <2>7, <3>1, <3>3
    <3> QED
      BY <2>6, <3>2, <3>3
  <2>11. \A i \in 1..(n + 1) : frames'[i].p.kind = "create" => ~Old(frames'[i].p.addr)
    BY <2>0, <2>1, <2>4, <2>6 DEF StateInv, n
  <2>12. NoOrphanStorage' /\ Fit(begun)' /\ Fit(env)'
    BY <1>3, <1>5 DEF NoOrphanStorage, StateInv
  <2> QED
    BY <2>1, <2>3, <2>8, <2>9, <2>10, <2>11, <2>12 DEF StateInv
<1>6. \/ \E left \in Nat, ok \in BOOLEAN : Answer(under, left, ok)
      \/ /\ frames' = Append(under, f)
         /\ entry' = Append(SubSeq(entry, 1, Len(under)), e)
         /\ phase' = "running"
         /\ p.addr \in env'.touched.map
  BY <1>0, <1>1, RunFit
<1> QED
  BY <1>4, <1>5, <1>6

\* A frame that fails leads back to where it was entered, which was fit, and where
\* the accounts of the frames below were touched.
LEMMA FailFit ==
  ASSUME FrameInv, StateInv, phase = "running", NEW left \in Nat, Fail(left) PROVE StateInv'
<1> DEFINE n == Len(frames)
<1>0. /\ n \in Nat \ {0} /\ Under \in Seq(Frames) /\ Len(Under) = n - 1
      /\ \A i \in 1..(n - 1) : Under[i] = frames[i]
  BY TopTyped
<1>1. /\ Levels = 0..n /\ n \in Levels /\ MarksAt(n) = Top.marks /\ EntryAt(n) = entry[n]
      /\ TypeOK /\ Len(entry) = n /\ n \in 1..n
  BY <1>0 DEF FrameInv, Shape, Levels, MarksAt, EntryAt, Top
<1>2. Held(Top.marks, entry[n], saved, env)
  BY <1>1 DEF FrameInv, AllHeld
<1>3. env' = entry[n] /\ begun' = begun
  BY <1>2, HeldRestores DEF Fail
<1>4. /\ Len(frames') = n - 1
      /\ \A i \in 1..(n - 1) : frames'[i].p = Under[i].p
      /\ entry' = SubSeq(entry, 1, n - 1)
      /\ phase' = IF n - 1 = 0 THEN "ran" ELSE "running"
  BY <1>0, <1>1, AnswerOutcome DEF Fail
<1>5. Fit(env')
  BY <1>1, <1>3 DEF StateInv
<1>6. \A i \in 1..(n - 1) : i \in 1..n /\ i < n
  BY <1>0
<1>7. \A i \in 1..(n - 1) : frames[i].p.addr \in env'.touched.map
  BY <1>1, <1>3, <1>6 DEF StateInv
<1>8. n - 1 \in 0..Len(frames) /\ phase' # "swept"
  BY <1>0, <1>4
<1>9. \A i \in 1..(n - 1) : frames'[i].p = frames[i].p
  BY <1>0, <1>4
<1> HIDE DEF n
<1> QED
  BY <1>3, <1>4, <1>5, <1>7, <1>8, <1>9, LeaveKeeps

\* A frame that succeeds: a creation writes its code where no old contract is.
LEMMA SucceedFit ==
  ASSUME FrameInv, StateInv, phase = "running", NEW e, Later(env, e), Fit(e),
         NEW gas \in Nat, NEW code \in BOOLEAN, Succeed(e, gas, code)
  PROVE  StateInv'
<1> DEFINE n == Len(frames)
           p == Top.p
<1>0. /\ n \in Nat \ {0} /\ Under \in Seq(Frames) /\ Len(Under) = n - 1 /\ Top \in Frames
      /\ \A i \in 1..(n - 1) : Under[i] = frames[i]
  BY TopTyped
<1>1. TypeOK /\ p.addr \in Address /\ (p.kind = "create" => ~Old(p.addr))
  <2>1. n \in 1..n /\ p.addr \in Address
    BY <1>0 DEF Frames, Params
  <2> QED
    BY <2>1 DEF FrameInv, StateInv, Top
<1>2. ASSUME NEW left \in Nat, Answer(Under, left, TRUE), Later(env, env'), Fit(env'),
             begun' = begun
      PROVE  StateInv'
  <2>1. /\ Len(frames') = n - 1
        /\ \A i \in 1..(n - 1) : frames'[i].p = Under[i].p
        /\ entry' = SubSeq(entry, 1, n - 1)
        /\ phase' = IF n - 1 = 0 THEN "ran" ELSE "running"
    BY <1>0, <1>1, <1>2, AnswerOutcome
  <2>2. n - 1 \in 0..Len(frames) /\ phase' # "swept"
    BY <1>0, <2>1
  <2>3. \A i \in 1..(n - 1) : frames'[i].p = frames[i].p
    BY <1>0, <2>1
  <2> HIDE DEF n
  <2> QED
    BY <1>2, <2>1, <2>2, <2>3, MoveOnKeeps
<1> DEFINE deposit == IF code THEN DepositGas ELSE 0
           coded == setCode(e.world, p.addr, code)
           w == setNonce(coded, p.addr)
           done == [e EXCEPT !.world = w, !.created = Mark(e.created, p.addr)]
<1>3. deposit \in Nat
  BY CallAssumption
<1>4. CASE p.kind # "create" \/ p.addr \in e.suicided.map
  <2>1. env' = e /\ begun' = begun /\ Answer(Under, gas, TRUE)
    BY <1>4 DEF Succeed
  <2> QED
    BY <1>2, <2>1
<1>5. CASE ~(p.kind # "create" \/ p.addr \in e.suicided.map)
  <2>1. CASE gas < deposit
    <3>1. Fail(0)
      BY <1>5, <2>1 DEF Succeed
    <3> QED
      BY <3>1, FailFit
  <2>2. CASE ~(gas < deposit)
    <3>1. env' = done /\ begun' = begun /\ Answer(Under, gas - deposit, TRUE)
      BY <1>5, <2>2 DEF Succeed
    <3>2. ~Old(p.addr)
      BY <1>1, <1>5
    <3>3. /\ e \in Envs /\ e.world \in Worlds /\ Sound(e.created) /\ Later(e, e)
          /\ coded \in Worlds /\ w \in Worlds
      <4>1. e \in Envs /\ e.world \in Worlds /\ Sound(e.created) /\ Later(e, e)
        BY LaterReflexive DEF Later, Envs, Grows
      <4>2. coded \in Worlds
        BY <1>1, <4>1, SettersTyped
      <4> HIDE DEF coded
      <4>3. w \in Worlds
        BY <1>1, <4>2, SettersTyped
      <4> QED
        BY <4>1, <4>2, <4>3
    <3>4. /\ coded.slot = e.world.slot /\ coded.acc[p.addr] # NoAccount
          /\ \A a \in Address \ {p.addr} : /\ coded.acc[a] = e.world.acc[a]
                                           /\ account(coded, a) = account(e.world, a)
      <4> DEFINE x == [account(e.world, p.addr) EXCEPT !.code = code]
      <4>1. x \in Account
        BY <1>1, <3>3, AccountTyped DEF Account
      <4>2. coded = setAcc(e.world, p.addr, x)
        BY DEF setCode
      <4> HIDE DEF x, coded
      <4> QED
        BY <1>1, <3>3, <4>1, <4>2, SetAccWrites
    <3>5. Holds(coded, w) /\ Total(w) = Total(e.world)
      <4>1. 0 \in Nat /\ Total(coded) = Total(e.world)
        BY <1>1, <3>3, SettersTotal
      <4> HIDE DEF coded
      <4> QED
        BY <1>1, <3>3, <4>1, SettersHold, SettersTotal
    <3> DEFINE c == Mark(e.created, p.addr)
    <3>6. c.map = e.created.map \cup {p.addr} /\ Grows(e.created, c) /\ c \in Journalled
      BY <1>1, <3>3, MarkAdds, MarkGrows DEF Sound
    <3> HIDE DEF coded, w, c
    <3>7. /\ done.world = w /\ done.created = c /\ done.touched = e.touched
          /\ done.logs = e.logs /\ done.suicided = e.suicided /\ done \in Envs
      BY <3>3, <3>6 DEF Envs, c
    <3>8. Later(e, done)
      BY <3>3, <3>6, <3>7 DEF Later
    <3> HIDE DEF done
    <3>9. Kept(done)
      BY <3>2, <3>4, <3>5, <3>6, <3>7 DEF Fit, Kept, Holds
    <3>10. Watched(done)
      BY <1>1, <3>4, <3>5, <3>7 DEF Fit, Watched, Holds
    <3>11. Later(env, done) /\ Solvent(done)
      BY <3>5, <3>7, <3>8, LaterTransitive, SolventLater DEF Fit
    <3> HIDE DEF deposit
    <3>12. gas - deposit \in Nat
      BY <1>3, <2>2
    <3> QED
      BY <1>2, <3>1, <3>9, <3>10, <3>11, <3>12 DEF Fit
  <2> QED
    BY <2>1, <2>2
<1> QED
  BY <1>4, <1>5

\* SSTORE writes to the account of the innermost frame, which is touched.
LEMMA SStoreFit ==
  ASSUME FrameInv, StateInv, NEW v \in BOOLEAN, SStore(v) PROVE StateInv'
<1> DEFINE a == Top.p.addr
           w == [env.world EXCEPT !.slot = [env.world.slot EXCEPT ![a] = v]]
           e == [env EXCEPT !.world = w]
<1>0. /\ Charged(1) /\ env' = e /\ UNCHANGED <<phase, begun, entry>> /\ 1 \in Nat
      /\ frames' = [frames EXCEPT ![Len(frames)] = [Top EXCEPT !.gas = Top.gas - 1]]
  BY DEF SStore, Writes
<1>1. phase = "running" /\ Spent(frames')
  BY <1>0, OpcodeSpends
<1>2. Later(env, e)
  BY <1>1, WrittenLater
<1>3. a \in Address /\ a \in env.touched.map
  <2>1. Len(frames) \in 1..Len(frames) /\ Top \in Frames
    BY <1>1, TopTyped
  <2> QED
    BY <2>1 DEF StateInv, Top, Frames, Params
<1>4. env \in Envs /\ env.world \in Worlds
  BY DEF FrameInv, TypeOK, Envs
<1> HIDE DEF a
<1>5. w.acc = env.world.acc /\ \A b \in Address \ {a} : w.slot[b] = env.world.slot[b]
  BY <1>3, <1>4 DEF Worlds
<1> HIDE DEF w
<1>6. e.world = w /\ e.touched = env.touched /\ e.created = env.created
  BY <1>4 DEF Envs
<1> HIDE DEF e
<1>7. Fit(env)
  BY DEF StateInv
<1>8. Kept(e)
  BY <1>5, <1>6, <1>7 DEF Fit, Kept, account
<1>9. Watched(e)
  BY <1>3, <1>5, <1>6, <1>7 DEF Fit, Watched
<1>10. Solvent(e)
  <2>1. Total(w) = Total(env.world)
    BY <1>5 DEF Total, account
  <2> QED
    BY <1>2, <1>6, <1>7, <2>1, SolventLater DEF Fit
<1> QED
  BY <1>0, <1>1, <1>2, <1>8, <1>9, <1>10, SpendFit DEF Fit

\* Opcodes that leave the accounts alone.
LEMMA QuietFit ==
  ASSUME FrameInv, StateInv, Compute \/ opLog PROVE StateInv'
<1>0. Fit(env) /\ Later(env, env) /\ env \in Envs
  BY DEF StateInv, FrameInv, Shape, TypeOK
<1>1. CASE Compute
  <2>1. /\ Charged(1) /\ env' = env /\ UNCHANGED <<phase, begun, entry>> /\ 1 \in Nat
        /\ frames' = [frames EXCEPT ![Len(frames)] = [Top EXCEPT !.gas = Top.gas - 1]]
    BY <1>1 DEF Compute
  <2>2. phase = "running" /\ Spent(frames')
    BY <2>1, OpcodeSpends
  <2> QED
    BY <1>0, <2>1, <2>2, SpendFit
<1>2. CASE opLog
  <2> DEFINE e == [env EXCEPT !.logs = Append(env.logs, Top.p.addr)]
  <2>1. /\ Charged(1) /\ env' = e /\ UNCHANGED <<phase, begun, entry>> /\ 1 \in Nat
        /\ frames' = [frames EXCEPT ![Len(frames)] = [Top EXCEPT !.gas = Top.gas - 1]]
    BY <1>2 DEF opLog, Writes
  <2>2. phase = "running" /\ Spent(frames')
    BY <2>1, OpcodeSpends
  <2>3. Later(env, e)
    BY <2>2, WrittenLater
  <2>4. e.world = env.world /\ e.created = env.created
    BY <1>0 DEF Envs
  <2> HIDE DEF e
  <2>5. Fit(e)
    BY <1>0, <2>3, <2>4, FitLater DEF Holds
  <2> QED
    BY <2>1, <2>2, <2>3, <2>5, SpendFit
<1> QED
  BY <1>1, <1>2

\* opCall runs a frame that creates nothing.
LEMMA CallFit ==
  ASSUME FrameInv, StateInv, NEW op \in {"call", "callcode", "delegatecall", "staticcall"},
         NEW to \in Address, NEW val \in Vals, NEW req \in Reqs, opCall(op, to, val, req)
  PROVE  StateInv'
<1>1. phase = "running" /\ begun' = begun
  BY CallRuns
<1>2. PICK under : \E p \in Params :
        Spent(under) /\ Run(env, saved, under, p) /\ p.kind # "create"
  BY CallRuns, Zenon
<1>3. Later(env, env) /\ Fit(env)
  BY DEF FrameInv, Shape, StateInv
<1> QED
  BY <1>1, <1>2, <1>3, RunLeavesFit

\* opCreate creates nothing where there is code, and an old contract has its code.
LEMMA CreateFit ==
  ASSUME FrameInv, StateInv, NEW to \in Fresh, NEW val \in Vals, opCreate(to, val)
  PROVE  StateInv'
<1>0. to \in Address /\ to \notin Precompiles
  BY CallAssumption, WorldAssumption
<1>1. phase = "running" /\ begun' = begun /\ Later(env, Raised)
  BY <1>0, CreateRuns
<1>2. Fit(env) /\ env \in Envs /\ env.world \in Worlds /\ Top.p.addr \in Address
  BY <1>1, TopTyped DEF StateInv, FrameInv, TypeOK, Envs, Frames, Params
<1>3. Raised.world = setNonce(env.world, Top.p.addr) /\ Raised.created = env.created
  BY <1>2 DEF Raised, Envs
<1>4. Holds(env.world, Raised.world) /\ Total(Raised.world) = Total(env.world)
  <2>1. 0 \in Nat
    OBVIOUS
  <2> QED
    BY <1>2, <1>3, <2>1, SettersHold, SettersTotal
<1>5. Fit(Raised)
  BY <1>1, <1>2, <1>3, <1>4, FitLater
<1>6. CASE Spent(frames') /\ env' = Raised /\ UNCHANGED <<saved, result, phase, entry>>
  BY <1>1, <1>5, <1>6, SpendFit
<1>7. ASSUME NEW under, NEW p \in Params, Spent(under), Run(Raised, saved, under, p),
             p.addr = to, ~codeOf(Raised.world, to)
      PROVE  StateInv'
  <2>1. ~Old(p.addr)
    BY <1>0, <1>5, <1>7 DEF Fit, Kept, codeOf
  <2> QED
    BY <1>1, <1>5, <1>7, <2>1, RunLeavesFit
<1> QED
  BY <1>0, <1>6, <1>7, CreateRuns, Zenon

\* SELFDESTRUCT deletes an account only if it counts as created, with its storage.
LEMMA SelfDestructFit ==
  ASSUME FrameInv, StateInv, NEW to \in Address, SelfDestruct(to) PROVE StateInv'
<1> DEFINE a == Top.p.addr
           bal == account(env.world, a).balance
           e == transfer(env, a, to, bal)
           w == IF a \in env.created.map THEN Delete(e.world, {a}) ELSE e.world
           d == [e EXCEPT !.world = w, !.suicided = Mark(e.suicided, a)]
<1>0. Charged(1) /\ Succeed(d, Top.gas - 1, FALSE)
  BY DEF SelfDestruct
<1>1. phase = "running" /\ Top.gas >= 1
  BY <1>0 DEF Charged
<1>2. a \in Address /\ Top.gas - 1 \in Nat
  BY <1>1, TopTyped DEF Frames, Params
<1>3. Later(env, env) /\ env.world \in Worlds /\ Fit(env)
  BY DEF FrameInv, Shape, Later, Envs, StateInv
<1> HIDE DEF a
<1>4. bal \in Nat /\ bal <= account(env.world, a).balance
  BY <1>2, <1>3, AccountTyped DEF Account
<1>5. Later(env, e) /\ Fit(e) /\ e.created = env.created
  <2> HIDE DEF bal
  <2> QED
    BY <1>2, <1>3, <1>4, TransferLater, TransferFit
<1> HIDE DEF e
<1>6. e \in Envs /\ e.world \in Worlds /\ w \in Worlds
  BY <1>5, DeleteTyped DEF Later, Envs
<1>7. \A b \in Address : \/ w.slot[b] = e.world.slot[b] /\ w.acc[b] = e.world.acc[b]
                         \/ b \in env.created.map /\ ~w.slot[b]
  <2>1. CASE a \in env.created.map
    <3>1. w = Delete(e.world, {a})
      BY <2>1
    <3> HIDE DEF w
    <3> QED
      BY <1>6, <2>1, <3>1, DeleteWrites
  <2>2. CASE a \notin env.created.map
    BY <2>2
  <2> QED
    BY <2>1, <2>2
<1> HIDE DEF w
<1> DEFINE x == [e EXCEPT !.suicided = Mark(e.suicided, a)]
<1>8. Later(env, d)
  <2>1. Later(env, x)
    BY <1>2, <1>5, CreatedLater
  <2>2. Later(env, [x EXCEPT !.world = w])
    BY <1>6, <2>1, LaterWorld
  <2>3. d = [x EXCEPT !.world = w]
    BY <1>6 DEF Envs
  <2> QED
    BY <2>2, <2>3
<1>9. /\ d.world = w /\ d.touched = e.touched /\ d.created = e.created
      /\ d.suicided = Mark(e.suicided, a)
  BY <1>6 DEF Envs
<1>s. Solvent(d)
  <2>1. Solvent(e) /\ Total(e.world) \in Nat /\ Total(World0) \in Nat /\ Total(w) \in Nat
    BY <1>5, <1>6, TotalSums, CallAssumption DEF Fit
  <2>2. Later(e, e)
    BY <1>5, LaterReflexive
  <2>3. d.suicided.map = e.suicided.map \cup {a}
    BY <1>2, <1>9, <2>2, MarkAdds DEF Later, Grows
  <2>4. CASE a \in env.created.map
    <3>1. Total(w) <= Total(e.world)
      BY <1>6, <2>4, DeleteTotal DEF w
    <3> HIDE DEF d
    <3> QED
      BY <1>5, <1>9, <2>1, <2>3, <2>4, <3>1 DEF Solvent
  <2>5. CASE a \notin env.created.map
    <3>1. w = e.world
      BY <2>5 DEF w
    <3> HIDE DEF d
    <3> QED
      BY <1>9, <2>1, <2>3, <3>1 DEF Solvent
  <2> QED
    BY <2>4, <2>5
<1> HIDE DEF d
<1>10. Kept(d)
  BY <1>3, <1>5, <1>7, <1>9 DEF Fit, Kept, account
<1>11. Watched(d)
  BY <1>5, <1>7, <1>9 DEF Fit, Watched
<1> QED
  BY <1>0, <1>1, <1>2, <1>s, <1>8, <1>10, <1>11, SucceedFit DEF Fit

\* The first run.
LEMMA BeginFit ==
  ASSUME FrameInv, StateInv, NEW to \in Address, NEW val \in Nat, NEW create \in BOOLEAN,
         create => ~Old(to), BeginTx(to, val, create)
  PROVE  StateInv'
<1> DEFINE known == Mark(Mark(env.touched, From), Coinbase)
           t == IF create THEN known ELSE Mark(known, to)
           e == [env EXCEPT !.touched = t]
           p == [caller |-> From, addr |-> to, codeAddr |-> to, val |-> val, gas |-> TxGas,
                 ro |-> FALSE, kind |-> IF create THEN "create" ELSE "call"]
           s == Append(saved, e.world)
<1>0. phase = "ready" /\ begun' = e /\ Run(e, s, <<>>, p)
  BY DEF BeginTx
<1>1. p \in Params /\ (p.kind = "create" => ~Old(p.addr))
  BY CallAssumption DEF Params
<1>2. env \in Envs /\ Sound(env.touched) /\ Later(env, env) /\ Fit(env)
  BY DEF FrameInv, Shape, Later, Grows, StateInv
<1>3. Later(env, e)
  <2>1. Grows(env.touched, Mark(env.touched, From)) /\ Sound(Mark(env.touched, From))
    BY <1>2, MarkGrows, CallAssumption DEF Grows
  <2>2. Grows(env.touched, known) /\ Sound(known)
    <3>1. Grows(Mark(env.touched, From), known)
      BY <2>1, MarkGrows, CallAssumption
    <3> QED
      BY <2>1, <3>1, GrowsTransitive DEF Grows
  <2> HIDE DEF known
  <2>3. Grows(env.touched, t)
    BY <2>2, MarkGrows, GrowsTransitive
  <2> HIDE DEF t
  <2>4. t \in Journalled
    BY <2>3 DEF Grows, Sound
  <2>5. /\ e \in Envs /\ e.logs = env.logs /\ e.touched = t
        /\ e.created = env.created /\ e.suicided = env.suicided
    BY <1>2, <2>4 DEF Envs
  <2> HIDE DEF e
  <2> QED
    BY <1>2, <2>3, <2>5 DEF Later
<1>4. e.world = env.world /\ e.created = env.created /\ e.world \in Worlds
  BY <1>2 DEF Envs
<1> HIDE DEF e, p
<1>5. Fit(e) /\ Later(e, e)
  BY <1>2, <1>3, <1>4, FitLater, LaterReflexive DEF Holds
<1>6. /\ s \in Seq(Worlds) /\ entry \in Seq(Envs) /\ TypeOK /\ <<>> \in Seq(Frames)
      /\ Len(<<>>) = 0
  BY <1>4 DEF FrameInv, TypeOK
<1> HIDE DEF s
<1>7. Fit(env')
  BY <1>0, <1>1, <1>5, <1>6, RunFit
<1>8. Fit(begun')
  BY <1>0, <1>5
<1>9. ASSUME NEW left \in Nat, NEW ok \in BOOLEAN, Answer(<<>>, left, ok) PROVE StateInv'
  <2>1. frames' = <<>> /\ entry' = SubSeq(entry, 1, 0) /\ phase' = "ran"
    BY <1>6, <1>9 DEF Answer
  <2>2. Len(entry') = 0 /\ Len(frames') = 0
    BY <1>6, <2>1
  <2> QED
    BY <1>7, <1>8, <2>1, <2>2 DEF StateInv, NoOrphanStorage
<1> DEFINE f == [p |-> p, gas |-> p.gas, marks |-> Marks(e, s)]
<1>10. ASSUME frames' = Append(<<>>, f), entry' = Append(SubSeq(entry, 1, Len(<<>>)), e),
              phase' = "running", p.addr \in env'.touched.map
       PROVE  StateInv'
  <2>0. f.p = p
    OBVIOUS
  <2> HIDE DEF f
  <2>1. SubSeq(entry, 1, Len(<<>>)) = <<>>
    BY <1>6
  <2>2. Len(frames') = 1 /\ frames'[1] = f /\ Len(entry') = 1 /\ entry'[1] = e
    BY <1>10, <2>1
  <2>3. \A i \in 1..1 : i = 1
    OBVIOUS
  <2>4. /\ \A i \in 1..1 : Fit(entry'[i])
        /\ \A i \in 1..1 : frames'[i].p.addr \in env'.touched.map
        /\ \A i \in 1..1 : frames'[i].p.kind = "create" => ~Old(frames'[i].p.addr)
        /\ \A i, j \in 1..1 : ~(i < j)
    BY <1>1, <1>5, <1>10, <2>0, <2>2, <2>3
  <2> QED
    BY <1>7, <1>8, <1>10, <2>2, <2>4 DEF StateInv, NoOrphanStorage
<1>11. \/ \E left \in Nat, ok \in BOOLEAN : Answer(<<>>, left, ok)
       \/ /\ frames' = Append(<<>>, f)
          /\ entry' = Append(SubSeq(entry, 1, Len(<<>>)), e)
          /\ phase' = "running"
          /\ p.addr \in env'.touched.map
  BY <1>0, <1>1, <1>5, <1>6, RunFit
<1> QED
  BY <1>9, <1>10, <1>11

\* The sweep: an old contract is neither empty nor created, and storage without an
\* account is touched, its account reads as empty, so it goes.
LEMMA EndFit ==
  ASSUME FrameInv, StateInv, EndTx PROVE StateInv'
<1> DEFINE e == IF result.ok THEN env ELSE Restored(env, saved, base)
           empty == {a \in e.touched.map : emptyAccount(e.world, a)}
           both == e.suicided.map \cap e.created.map
           w == Delete(Delete(e.world, empty), both)
<1>0. /\ phase = "ran" /\ env' = [e EXCEPT !.world = w] /\ phase' = "swept"
      /\ UNCHANGED <<frames, begun, entry>>
  BY DEF EndTx
<1>1. frames = <<>> /\ Len(entry) = Len(frames)
  BY <1>0 DEF FrameInv, Shape
<1>2. Held(base, begun, saved, env)
  <2>1. Levels = 0..0 /\ MarksAt(0) = base /\ EntryAt(0) = begun
    BY <1>0, <1>1 DEF Levels, MarksAt, EntryAt
  <2> QED
    BY <2>1 DEF FrameInv, AllHeld
<1>3. e \in Envs /\ Fit(e)
  <2>1. Restored(env, saved, base) = begun
    BY <1>2, HeldRestores
  <2> QED
    BY <2>1 DEF StateInv, FrameInv, TypeOK
<1> HIDE DEF e
<1>4. /\ env'.world = w /\ env'.touched = e.touched /\ env'.created = e.created
      /\ env'.suicided = e.suicided
  BY <1>0, <1>3 DEF Envs
<1> DEFINE v == Delete(e.world, empty)
<1>d. e.world \in Worlds /\ v \in Worlds /\ w = Delete(v, both)
  BY <1>3, DeleteTyped DEF Envs
<1> HIDE DEF w, empty, both
<1>5. \A a \in Address : \/ a \in empty \/ a \in both
                         \/ w.acc[a] = e.world.acc[a] /\ w.slot[a] = e.world.slot[a]
  BY <1>d, DeleteWrites
<1>6. \A a \in Address : w.slot[a] => a \notin empty /\ a \notin both
  BY <1>d, DeleteWrites
<1>7. Kept(env')
  <2>1. ASSUME NEW a \in Address, Old(a)
        PROVE  account(w, a).code /\ a \notin e.created.map
    <3>1. account(e.world, a).code /\ a \notin e.created.map
      BY <1>3, <2>1 DEF Fit, Kept
    <3>2. a \notin empty /\ a \notin both
      BY <3>1 DEF emptyAccount, empty, both
    <3>3. w.acc[a] = e.world.acc[a]
      BY <1>5, <3>2
    <3> QED
      BY <3>1, <3>3 DEF account
  <2> QED
    BY <1>4, <2>1 DEF Kept
<1>8. ASSUME NEW a \in Address, w.slot[a] PROVE w.acc[a] # NoAccount
  <2>1. a \notin empty /\ a \notin both
    BY <1>6, <1>8
  <2>2. w.acc[a] = e.world.acc[a] /\ e.world.slot[a]
    BY <1>5, <1>8, <2>1
  <2>3. SUFFICES ASSUME e.world.acc[a] = NoAccount PROVE FALSE
    BY <2>2
  <2>4. a \in e.touched.map
    BY <1>3, <2>2, <2>3 DEF Fit, Watched
  <2>5. emptyAccount(e.world, a)
    BY <2>3 DEF emptyAccount, account
  <2> QED
    BY <2>1, <2>4, <2>5 DEF empty
<1>9. NoOrphanStorage' /\ Watched(env')
  BY <1>4, <1>8 DEF NoOrphanStorage, Watched
<1>10. Len(entry') = 0 /\ Len(frames') = 0
  BY <1>0, <1>1
<1>11. Fit(begun')
  BY <1>0 DEF StateInv
<1>12. Solvent(env')
  <2>1. Total(v) = Total(e.world)
    BY <1>d, DeleteTotal DEF empty, emptyAccount
  <2>2. Total(w) <= Total(v) /\ (both = {} => Total(w) = Total(v))
    BY <1>d, DeleteTotal
  <2>3. /\ Total(e.world) \in Nat /\ Total(v) \in Nat /\ Total(w) \in Nat
        /\ Total(World0) \in Nat
    BY <1>d, DeleteTyped, TotalSums, CallAssumption
  <2>4. env'.created.map \cap env'.suicided.map = both
    BY <1>4 DEF both
  <2>5. Solvent(e)
    BY <1>3 DEF Fit
  <2> QED
    BY <1>4, <2>1, <2>2, <2>3, <2>4, <2>5 DEF Solvent, both
<1> QED
  BY <1>7, <1>9, <1>10, <1>11, <1>12 DEF StateInv, Fit

\* The transaction begins with no account created, and no storage without account.
LEMMA StateInit ==
  Init => StateInv
<1> SUFFICES ASSUME Init PROVE StateInv
  OBVIOUS
<1>1. /\ env.world = World0 /\ env.created.map = {} /\ begun = env
      /\ frames = <<>> /\ entry = <<>> /\ phase = "ready"
  BY DEF Init
<1>2. Fit(env)
  <2>1. Total(World0) \in Nat
    BY TotalSums, CallAssumption
  <2> QED
    BY <1>1, <2>1, WorldAssumption DEF Fit, Kept, Watched, Solvent, Old
<1> QED
  BY <1>1, <1>2 DEF StateInv, NoOrphanStorage

\* Every step preserves the invariant.
LEMMA StateNext ==
  FrameInv /\ StateInv /\ [Next]_vars => StateInv'
<1> SUFFICES ASSUME FrameInv, StateInv, [Next]_vars PROVE StateInv'
  OBVIOUS
<1>0. Fresh \subseteq Address /\ Vals \subseteq Nat /\ TRUE \in BOOLEAN /\ FALSE \in BOOLEAN
  BY CallAssumption
<1>1. ASSUME NEW to \in Address, NEW val \in Vals, BeginTx(to, val, FALSE) PROVE StateInv'
  <2>1. val \in Nat
    BY <1>0
  <2> QED
    BY <1>0, <1>1, <2>1, BeginFit
<1>2. ASSUME NEW to \in Fresh, NEW val \in Vals, ~codeOf(World0, to), BeginTx(to, val, TRUE)
      PROVE  StateInv'
  <2>1. val \in Nat /\ to \in Address
    BY <1>0
  <2>2. ~Old(to)
    BY <1>2, WorldAssumption DEF Old, codeOf
  <2> QED
    BY <1>0, <1>2, <2>1, <2>2, BeginFit
<1>3. CASE FrameStep
  <2>0. Later(env, env) /\ Fit(env)
    BY DEF FrameInv, Shape, StateInv
  <2>1. ASSUME NEW v \in BOOLEAN, Return(v) PROVE StateInv'
    <3>1. phase = "running" /\ Succeed(env, Top.gas, v)
      BY <2>1 DEF Return, Charged
    <3>2. Top.gas \in Nat
      BY <3>1, TopTyped DEF Frames
    <3> QED
      BY <2>0, <3>1, <3>2, SucceedFit
  <2>2. CASE Revert
    <3>1. phase = "running" /\ Fail(Top.gas)
      BY <2>2 DEF Revert, Charged
    <3>2. Top.gas \in Nat
      BY <3>1, TopTyped DEF Frames
    <3> QED
      BY <3>1, <3>2, FailFit
  <2>3. CASE Halt
    BY <2>3, FailFit DEF Halt, Charged
  <2> QED
    BY <1>3, <2>1, <2>2, <2>3, SStoreFit, QuietFit, CallFit, CreateFit, SelfDestructFit, Zenon
    DEF FrameStep
<1>4. CASE EndTx
  BY <1>4, EndFit
<1>5. CASE UNCHANGED vars
  <2>1. UNCHANGED <<env, frames, phase, begun, entry>>
    BY <1>5 DEF vars
  <2> QED
    BY <2>1 DEF StateInv, NoOrphanStorage
<1> QED
  BY <1>1, <1>2, <1>3, <1>4, <1>5, Zenon DEF Next

-----------------------------------------------------------------------------
\* Gas.

\* The gas of the frames of a stack.
Gases(fs) == [i \in 1..Len(fs) |-> fs[i].gas]

\* A stack of frames has a finite sum of gas.
LEMMA GasSums ==
  ASSUME NEW fs \in Seq(Frames)
  PROVE  /\ GasOf(fs) = Over(Gases(fs), 1..Len(fs))
         /\ IsFiniteSet(1..Len(fs)) /\ GasOf(fs) \in Nat
         /\ fs = <<>> => GasOf(fs) = 0
         /\ \A i \in 1..Len(fs) : /\ Gases(fs)[i] = fs[i].gas
                                  /\ Gases(fs)[i] \in Nat /\ Gases(fs)[i] \in Int
<1>1. Len(fs) \in Nat /\ \A i \in 1..Len(fs) : fs[i] \in Frames
  OBVIOUS
<1>2. IsFiniteSet(1..Len(fs))
  BY <1>1, FS_Interval
<1>3. \A i \in 1..Len(fs) : Gases(fs)[i] = fs[i].gas /\ Gases(fs)[i] \in Nat /\ Gases(fs)[i] \in Int
  BY <1>1 DEF Gases, Frames
<1>0. GasOf(fs) = Over(Gases(fs), 1..Len(fs))
  BY DEF GasOf, Gases, Over
<1>4. GasOf(fs) \in Nat
  BY <1>0, <1>2, <1>3, SumBounds
<1>5. ASSUME fs = <<>> PROVE GasOf(fs) = 0
  <2>1. 1..Len(fs) = {}
    BY <1>5
  <2>2. \A i \in 1..Len(fs) : Gases(fs)[i] \in Int
    BY <1>3
  <2> QED
    BY <1>0, <1>2, <2>1, <2>2, SumPick
<1> QED
  BY <1>0, <1>2, <1>3, <1>4, <1>5

\* A frame more.
LEMMA GasAppend ==
  ASSUME NEW fs \in Seq(Frames), NEW f \in Frames
  PROVE  GasOf(Append(fs, f)) = GasOf(fs) + f.gas
<1> DEFINE gs == Append(fs, f)
           n == Len(fs)
           S == 1..(n + 1)
<1>0. n \in Nat
  OBVIOUS
<1>1. gs \in Seq(Frames) /\ Len(gs) = n + 1 /\ gs[n + 1] = f /\ \A i \in 1..n : gs[i] = fs[i]
  OBVIOUS
<1> HIDE DEF gs
<1>2. IsFiniteSet(S) /\ \A i \in S : Gases(gs)[i] = gs[i].gas /\ Gases(gs)[i] \in Int
  BY <1>1, GasSums
<1>3. \A i \in 1..n : Gases(fs)[i] = fs[i].gas /\ Gases(fs)[i] \in Int
  BY GasSums
<1>4. IsFiniteSet(1..n)
  BY GasSums
<1> HIDE DEF n
<1>5. n + 1 \in S /\ S \ {n + 1} = 1..n /\ \A i \in 1..n : i \in S
  BY <1>0
<1>6. Over(Gases(gs), S) = Gases(gs)[n + 1] + Over(Gases(gs), 1..n)
  <2>1. PICK k \in S : k = n + 1 /\ S \ {k} = 1..n
    BY <1>5
  <2>2. \A i \in S : Gases(gs)[i] \in Int
    BY <1>2
  <2> HIDE DEF S
  <2>3. Over(Gases(gs), S) = Gases(gs)[k] + Over(Gases(gs), S \ {k})
    BY <1>2, <2>2, SumRemove
  <2> QED
    BY <2>1, <2>3
<1>7. \A i \in 1..n : Gases(fs)[i] \in Int /\ Gases(fs)[i] = Gases(gs)[i]
  BY <1>1, <1>2, <1>3, <1>5
<1>8. Over(Gases(fs), 1..n) = Over(Gases(gs), 1..n)
  BY <1>4, <1>7, SumCongruence
<1>9. /\ GasOf(fs) \in Nat /\ f.gas \in Nat
      /\ GasOf(fs) = Over(Gases(fs), 1..n) /\ GasOf(gs) = Over(Gases(gs), S)
  BY <1>1, GasSums DEF Frames, S, n
<1> QED
  BY <1>1, <1>2, <1>5, <1>6, <1>8, <1>9 DEF gs

\* A stack with its last frame exchanged.
LEMMA LastExchanged ==
  ASSUME NEW low \in Seq(Frames), NEW fs \in Seq(Frames), Len(fs) = Len(low) + 1,
         \A i \in 1..Len(low) : fs[i] = low[i], NEW g \in Frames
  PROVE  [fs EXCEPT ![Len(fs)] = g] = Append(low, g)
<1> DEFINE a == [fs EXCEPT ![Len(fs)] = g]
           b == Append(low, g)
           n == Len(low)
<1>1. n \in Nat
  OBVIOUS
<1>2. a \in Seq(Frames) /\ Len(a) = n + 1 /\ a[n + 1] = g /\ \A i \in 1..n : a[i] = low[i]
  BY <1>1
<1>3. b \in Seq(Frames) /\ Len(b) = n + 1 /\ b[n + 1] = g /\ \A i \in 1..n : b[i] = low[i]
  BY <1>1
<1> HIDE DEF a, b, n
<1>4. \A i \in 1..(n + 1) : i = n + 1 \/ i \in 1..n
  BY <1>1
<1>5. a = b
  BY <1>2, <1>3, <1>4, SeqEqual
<1> QED
  BY <1>5 DEF a, b

\* The gas of the frames is that of the innermost and of those under it.
LEMMA GasSplits ==
  ASSUME FrameInv, phase = "running"
  PROVE  /\ GasOf(frames) = GasOf(Under) + Top.gas
         /\ GasOf(Under) \in Nat /\ Top.gas \in Nat /\ Under \in Seq(Frames) /\ Top \in Frames
         /\ \A g \in Frames : [frames EXCEPT ![Len(frames)] = g] = Append(Under, g)
<1>1. /\ Len(frames) \in Nat \ {0} /\ Top \in Frames /\ Under \in Seq(Frames)
      /\ Len(Under) = Len(frames) - 1
      /\ \A i \in 1..(Len(frames) - 1) : Under[i] = frames[i]
      /\ Top = frames[Len(frames)]
  BY TopTyped DEF Top
<1>2. frames \in Seq(Frames)
  BY DEF FrameInv, TypeOK
<1>3. frames = Append(Under, Top)
  BY <1>1, <1>2
<1>4. ASSUME NEW g \in Frames PROVE [frames EXCEPT ![Len(frames)] = g] = Append(Under, g)
  BY <1>1, <1>2, LastExchanged
<1>5. GasOf(frames) = GasOf(Under) + Top.gas
  BY <1>1, <1>3, GasAppend
<1> QED
  BY <1>1, <1>4, <1>5, GasSums DEF Frames

\* Before the first run nothing was answered.
Unanswered == phase = "ready" => result.left = 0

\* What the property counts after a step.
LEMMA GasCounted ==
  ASSUME TypeOK', phase' # "ready"
  PROVE  GasTotal' \in Nat /\ GasTotal' = result'.left + GasOf(frames')
<1>1. GasTotal' = result'.left + GasOf(frames')
  BY DEF GasTotal
<1>2. result'.left \in Nat /\ GasOf(frames') \in Nat
  BY GasSums DEF TypeOK
<1> QED
  BY <1>1, <1>2

\* A step of the transaction that makes no gas.
GasShrinks == phase' # "ready" /\ GasTotal' <= GasTotal

\* An answer gives the gas left to the frame beneath, or to the transaction.
LEMMA AnswerGas ==
  ASSUME TypeOK, NEW under \in Seq(Frames), NEW left \in Nat, NEW ok \in BOOLEAN,
         Answer(under, left, ok)
  PROVE  phase' # "ready" /\ result'.left + GasOf(frames') <= result.left + GasOf(under) + left
<1>0. result.left \in Nat /\ GasOf(under) \in Nat
  BY GasSums DEF TypeOK
<1>1. CASE Len(under) = 0
  <2>1. frames' = <<>> /\ phase' = "ran" /\ result'.left = left /\ under = <<>>
    BY <1>1 DEF Answer
  <2>2. GasOf(<<>>) = 0
    BY <1>1, <2>1, GasSums
  <2> QED
    BY <1>0, <2>1, <2>2
<1>2. CASE Len(under) # 0
  <2> DEFINE n == Len(under)
             m == n - 1
             low == SubSeq(under, 1, m)
             top == under[n]
             new == [top EXCEPT !.gas = top.gas + left]
  <2>1. frames' = [under EXCEPT ![n] = new] /\ phase' = "running" /\ result' = result
    BY <1>2 DEF Answer
  <2>2. n \in Nat \ {0} /\ m \in Nat /\ m <= n /\ n = m + 1
    BY <1>2
  <2>3. top \in Frames /\ top.gas \in Nat /\ new \in Frames /\ new.gas = top.gas + left
    <3>1. top \in Frames
      BY <2>2
    <3> HIDE DEF top
    <3>2. top.gas \in Nat /\ top.gas + left \in Nat
      BY <3>1 DEF Frames
    <3> QED
      BY <3>1, <3>2 DEF Frames
  <2> HIDE DEF m, new
  <2>4. low \in Seq(Frames) /\ Len(low) = m /\ \A i \in 1..m : low[i] = under[i]
    BY <2>2
  <2> HIDE DEF low
  <2>5. under = Append(low, top)
    BY <2>2, <2>4
  <2>6. frames' = Append(low, new)
    BY <2>1, <2>2, <2>3, <2>4, LastExchanged
  <2>7. GasOf(under) = GasOf(low) + top.gas /\ GasOf(frames') = GasOf(low) + new.gas
    <3> HIDE DEF top
    <3> QED
      BY <2>3, <2>4, <2>5, <2>6, GasAppend
  <2>8. GasOf(low) \in Nat
    BY <2>4, GasSums
  <2> QED
    BY <1>0, <2>1, <2>3, <2>7, <2>8, SMTT(30)
<1> QED
  BY <1>1, <1>2

\* run uses up, gives back or hands to a new frame the gas it is given, and no more.
LEMMA RunGas ==
  ASSUME TypeOK, NEW e, NEW snaps, NEW under \in Seq(Frames), NEW p \in Params,
         Marks(e, snaps) \in MarkSet, Run(e, snaps, under, p)
  PROVE  phase' # "ready" /\ result'.left + GasOf(frames') <= result.left + GasOf(under) + p.gas
<1>0. p.gas \in Nat /\ result.left \in Nat /\ GasOf(under) \in Nat
  BY GasSums DEF TypeOK, Params
<1> DEFINE f == [p |-> p, gas |-> p.gas, marks |-> Marks(e, snaps)]
<1>1. \/ \E left \in 0..p.gas, ok \in BOOLEAN : Answer(under, left, ok)
      \/ frames' = Append(under, f) /\ phase' = "running" /\ UNCHANGED result
  <2>1. 0 \in 0..p.gas /\ p.gas \in 0..p.gas /\ TRUE \in BOOLEAN /\ FALSE \in BOOLEAN
    BY <1>0
  <2> HIDE DEF f
  <2>2. \/ Answer(under, p.gas, FALSE)
        \/ RunUndone(e, snaps, under, p, p.gas)
        \/ RunUndone(e, snaps, under, p, 0)
        \/ \E left \in 0..p.gas : RunDone(e, snaps, under, p, left)
        \/ RunDone(e, snaps, under, p, p.gas)
        \/ frames' = Append(under, f) /\ phase' = "running" /\ UNCHANGED result
    BY Zenon DEF Run, f
  <2> QED
    BY <2>1, <2>2, Zenon DEF RunUndone, RunDone
<1>2. ASSUME NEW left \in 0..p.gas, NEW ok \in BOOLEAN, Answer(under, left, ok)
      PROVE  /\ phase' # "ready"
             /\ result'.left + GasOf(frames') <= result.left + GasOf(under) + p.gas
  <2>1. left \in Nat /\ left <= p.gas
    BY <1>0
  <2>2. phase' # "ready" /\ result'.left + GasOf(frames') <= result.left + GasOf(under) + left
    BY <1>2, <2>1, AnswerGas
  <2>3. frames' \in Seq(Frames) /\ result' \in [ok : BOOLEAN, left : Nat]
    BY <1>2, <2>1, AnswerOutcome
  <2>4. GasOf(frames') \in Nat /\ result'.left \in Nat
    BY <2>3, GasSums
  <2> QED
    BY <1>0, <2>1, <2>2, <2>4
<1>3. CASE frames' = Append(under, f) /\ phase' = "running" /\ UNCHANGED result
  <2>1. f \in Frames /\ f.gas = p.gas
    BY <1>0 DEF Frames
  <2> HIDE DEF f
  <2>2. GasOf(frames') = GasOf(under) + p.gas
    BY <1>3, <2>1, GasAppend
  <2> QED
    BY <1>0, <1>3, <2>2
<1> QED
  BY <1>1, <1>2, <1>3

\* Frames that run opcodes, call, create and end.

\* run called by the innermost frame, which pays for it.
LEMMA CalledGas ==
  ASSUME FrameInv, FrameInv', phase = "running", NEW e, Later(env, e), NEW under, NEW p \in Params,
         Affords(under, p.gas), Run(e, saved, under, p)
  PROVE  GasShrinks
<1>1. PICK g \in Frames : under = Append(Under, g) /\ g.gas + p.gas <= Top.gas
  BY DEF Affords
<1>2. /\ GasOf(frames) = GasOf(Under) + Top.gas
      /\ GasOf(Under) \in Nat /\ Top.gas \in Nat /\ Under \in Seq(Frames)
  BY GasSplits
<1>3. under \in Seq(Frames) /\ GasOf(under) = GasOf(Under) + g.gas
  BY <1>1, <1>2, GasAppend
<1>4. TypeOK /\ Marks(e, saved) \in MarkSet /\ result.left \in Nat
  <2>1. TypeOK /\ saved \in Seq(Worlds) /\ result.left \in Nat
    BY DEF FrameInv, TypeOK
  <2>2. Later(e, e)
    BY LaterReflexive
  <2> QED
    BY <2>1, <2>2, MarksHold
<1>5. phase' # "ready" /\ result'.left + GasOf(frames') <= result.left + GasOf(under) + p.gas
  BY <1>3, <1>4, RunGas
<1>6. GasTotal = result.left + GasOf(frames)
  BY DEF GasTotal
<1>7. g.gas \in Nat /\ p.gas \in Nat
  BY DEF Frames, Params
<1>8. result.left + GasOf(under) + p.gas <= GasTotal
  BY <1>1, <1>2, <1>3, <1>4, <1>6, <1>7, SMTT(30)
<1>9. GasTotal' \in Nat /\ GasTotal' = result'.left + GasOf(frames')
  BY <1>5, GasCounted DEF FrameInv
<1> QED
  BY <1>2, <1>3, <1>4, <1>5, <1>6, <1>7, <1>8, <1>9, SMTT(30) DEF GasShrinks

\* A step that leaves the frames as they are, but for gas of the innermost.
LEMMA SpentGas ==
  ASSUME FrameInv, FrameInv', phase = "running", UNCHANGED <<phase, result>>,
         Affords(frames', 0)
  PROVE  GasShrinks
<1>1. PICK g \in Frames : frames' = Append(Under, g) /\ g.gas + 0 <= Top.gas
  BY DEF Affords
<1>2. /\ GasOf(frames) = GasOf(Under) + Top.gas
      /\ GasOf(Under) \in Nat /\ Top.gas \in Nat /\ Under \in Seq(Frames)
  BY GasSplits
<1>3. GasOf(frames') = GasOf(Under) + g.gas /\ g.gas \in Nat
  BY <1>1, <1>2, GasAppend DEF Frames
<1>4. GasTotal' = result.left + GasOf(frames') /\ GasTotal = result.left + GasOf(frames)
  BY DEF GasTotal
<1>5. result.left \in Nat
  BY DEF FrameInv, TypeOK
<1> QED
  BY <1>1, <1>2, <1>3, <1>4, <1>5 DEF GasShrinks

\* An opcode of the innermost frame.
LEMMA OpcodeGas ==
  ASSUME FrameInv, FrameInv', NEW cost \in Nat, Charged(cost), UNCHANGED <<phase, result>>,
         frames' = [frames EXCEPT ![Len(frames)] = [Top EXCEPT !.gas = Top.gas - cost]]
  PROVE  GasShrinks
<1> DEFINE f == [Top EXCEPT !.gas = Top.gas - cost]
<1>1. phase = "running" /\ Top.gas >= cost
  BY DEF Charged
<1>2. Top \in Frames /\ Top.gas \in Nat
  BY <1>1, GasSplits
<1>3. f \in Frames /\ f.gas = Top.gas - cost
  BY <1>1, <1>2 DEF Frames
<1>4. frames' = [frames EXCEPT ![Len(frames)] = f]
  OBVIOUS
<1> HIDE DEF f
<1>5. frames' = Append(Under, f)
  BY <1>1, <1>3, <1>4, GasSplits
<1>6. f.gas + 0 <= Top.gas
  BY <1>2, <1>3
<1>7. Affords(frames', 0)
  BY <1>3, <1>5, <1>6 DEF Affords
<1> QED
  BY <1>1, <1>7, SpentGas

\* The innermost frame ends with some of its gas.
LEMMA EndedGas ==
  ASSUME FrameInv, FrameInv', phase = "running", NEW left \in Nat, left <= Top.gas,
         NEW ok \in BOOLEAN, Answer(Under, left, ok)
  PROVE  GasShrinks
<1>1. /\ GasOf(frames) = GasOf(Under) + Top.gas
      /\ GasOf(Under) \in Nat /\ Top.gas \in Nat /\ Under \in Seq(Frames)
  BY GasSplits
<1>2. TypeOK /\ result.left \in Nat
  BY DEF FrameInv, TypeOK
<1>3. phase' # "ready" /\ result'.left + GasOf(frames') <= result.left + GasOf(Under) + left
  BY <1>1, <1>2, AnswerGas
<1>4. GasTotal' \in Nat /\ GasTotal' = result'.left + GasOf(frames')
  BY <1>3, GasCounted DEF FrameInv
<1>5. GasTotal = result.left + GasOf(frames)
  BY DEF GasTotal
<1> QED
  BY <1>1, <1>2, <1>3, <1>4, <1>5 DEF GasShrinks

\* With success or without.
LEMMA SucceedGas ==
  ASSUME FrameInv, FrameInv', phase = "running", NEW e, NEW gas \in Nat, gas <= Top.gas,
         NEW code \in BOOLEAN, Succeed(e, gas, code)
  PROVE  GasShrinks
<1> DEFINE deposit == IF code THEN DepositGas ELSE 0
<1>0. deposit \in Nat /\ Top.gas \in Nat
  BY CallAssumption, GasSplits
<1>1. \/ Answer(Under, gas, TRUE)
      \/ Answer(Under, 0, FALSE)
      \/ ~(gas < deposit) /\ Answer(Under, gas - deposit, TRUE)
  BY Zenon DEF Succeed, Fail
<1> HIDE DEF deposit
<1>2. CASE Answer(Under, gas, TRUE)
  BY <1>2, EndedGas
<1>3. CASE Answer(Under, 0, FALSE)
  <2>1. 0 \in Nat /\ 0 <= Top.gas
    BY <1>0
  <2> QED
    BY <1>3, <2>1, EndedGas
<1>4. CASE ~(gas < deposit) /\ Answer(Under, gas - deposit, TRUE)
  <2>1. gas - deposit \in Nat /\ gas - deposit <= Top.gas
    BY <1>0, <1>4
  <2> QED
    BY <1>4, <2>1, EndedGas
<1> QED
  BY <1>1, <1>2, <1>3, <1>4

\* The first frame gets TxGas.
LEMMA BeginGas ==
  ASSUME FrameInv, FrameInv', Unanswered, NEW to \in Address, NEW val \in Nat,
         NEW create \in BOOLEAN, BeginTx(to, val, create)
  PROVE  GasShrinks
<1> DEFINE known == Mark(Mark(env.touched, From), Coinbase)
           t == IF create THEN known ELSE Mark(known, to)
           e == [env EXCEPT !.touched = t]
           p == [caller |-> From, addr |-> to, codeAddr |-> to, val |-> val, gas |-> TxGas,
                 ro |-> FALSE, kind |-> IF create THEN "create" ELSE "call"]
           s == Append(saved, e.world)
<1>0. phase = "ready" /\ begun' = e /\ Run(e, s, <<>>, p)
  BY DEF BeginTx
<1>1. p \in Params /\ p.gas = TxGas /\ TxGas \in Nat
  BY CallAssumption DEF Params
<1> HIDE DEF p
<1>2. TypeOK /\ result.left = 0 /\ <<>> \in Seq(Frames) /\ saved \in Seq(Worlds) /\ begun' \in Envs
  BY <1>0 DEF FrameInv, TypeOK, Unanswered
<1> HIDE DEF e
<1>3. e \in Envs
  BY <1>0, <1>2
<1>4. s \in Seq(Worlds)
  BY <1>2, <1>3 DEF Envs
<1>5. Marks(e, s) \in MarkSet
  <2> HIDE DEF s
  <2>1. /\ e.logs \in Seq(Address) /\ e.touched.journal \in Seq(Address)
        /\ e.created.journal \in Seq(Address) /\ e.suicided.journal \in Seq(Address)
    BY <1>3 DEF Envs, Journalled
  <2> QED
    BY <1>4, <2>1, SMTT(30) DEF MarkSet, Marks
<1> HIDE DEF s
<1>6. phase' # "ready" /\ result'.left + GasOf(frames') <= result.left + GasOf(<<>>) + p.gas
  BY <1>0, <1>1, <1>2, <1>5, RunGas
<1>7. GasOf(<<>>) = 0
  BY <1>2, GasSums
<1>8. GasTotal' \in Nat /\ GasTotal' = result'.left + GasOf(frames')
  BY <1>6, GasCounted DEF FrameInv
<1>9. GasTotal = TxGas
  BY <1>0 DEF GasTotal
<1> QED
  BY <1>1, <1>2, <1>6, <1>7, <1>8, <1>9 DEF GasShrinks

\* No step makes gas.
LEMMA StepGas ==
  ASSUME FrameInv, FrameInv', Unanswered, Next PROVE GasShrinks
<1>0. Fresh \subseteq Address /\ Vals \subseteq Nat /\ TRUE \in BOOLEAN /\ FALSE \in BOOLEAN
  BY CallAssumption
<1>1. ASSUME NEW to \in Address, NEW val \in Vals, NEW create \in BOOLEAN,
             BeginTx(to, val, create)
      PROVE  GasShrinks
  <2>1. val \in Nat
    BY <1>0
  <2> QED
    BY <1>1, <2>1, BeginGas
<1>2. CASE FrameStep
  <2>1. phase = "running"
    BY <1>2, ZenonT(40) DEF FrameStep, Compute, SStore, opLog, Writes, Return, Revert, Halt, SelfDestruct,
                opCall, opCreate, Charged
  <2>2. Top.gas \in Nat /\ Later(env, env)
    BY <2>1, GasSplits DEF FrameInv, Shape
  <2>3. CASE Compute \/ opLog \/ \E v \in BOOLEAN : SStore(v)
    <3>1. /\ Charged(1) /\ UNCHANGED <<phase, result>> /\ 1 \in Nat
          /\ frames' = [frames EXCEPT ![Len(frames)] = [Top EXCEPT !.gas = Top.gas - 1]]
      BY <2>3 DEF Compute, opLog, SStore, Writes
    <3> QED
      BY <2>1, <3>1, OpcodeGas
  <2>4. ASSUME NEW v \in BOOLEAN, Return(v) PROVE GasShrinks
    BY <2>1, <2>2, <2>4, SucceedGas DEF Return
  <2>5. CASE Revert \/ Halt
    <3>1. Answer(Under, Top.gas, FALSE) \/ Answer(Under, 0, FALSE)
      BY <2>5 DEF Revert, Halt, Fail
    <3>2. 0 \in Nat /\ 0 <= Top.gas /\ Top.gas <= Top.gas
      BY <2>2
    <3> QED
      BY <1>0, <2>1, <2>2, <3>1, <3>2, EndedGas
  <2>6. ASSUME NEW to \in Address, SelfDestruct(to) PROVE GasShrinks
    <3>1. Top.gas >= 1 /\ \E e : Succeed(e, Top.gas - 1, FALSE)
      BY <2>6 DEF SelfDestruct, Charged
    <3>2. Top.gas - 1 \in Nat /\ Top.gas - 1 <= Top.gas
      BY <2>2, <3>1
    <3> QED
      BY <1>0, <2>1, <3>1, <3>2, SucceedGas
  <2>7. ASSUME NEW op \in {"call", "callcode", "delegatecall", "staticcall"}, NEW to \in Address,
               NEW val \in Vals, NEW req \in Reqs, opCall(op, to, val, req)
        PROVE  GasShrinks
    <3>1. PICK under : \E p \in Params : Affords(under, p.gas) /\ Run(env, saved, under, p)
      BY <2>7, CallRuns, Zenon
    <3> QED
      BY <2>1, <2>2, <3>1, CalledGas
  <2>8. ASSUME NEW to \in Fresh, NEW val \in Vals, opCreate(to, val) PROVE GasShrinks
    <3>1. to \in Address
      BY <1>0
    <3>2. CASE Affords(frames', 0) /\ UNCHANGED <<saved, result, phase, entry>>
      BY <2>1, <3>2, SpentGas
    <3>3. ASSUME NEW under, NEW p \in Params, Affords(under, p.gas), Run(Raised, saved, under, p)
          PROVE  GasShrinks
      BY <2>1, <2>8, <3>1, <3>3, CreateRuns, CalledGas
    <3> QED
      BY <2>8, <3>1, <3>2, <3>3, CreateRuns, Zenon
  <2> QED
    BY <1>2, <2>3, <2>4, <2>5, <2>6, <2>7, <2>8, ZenonT(40) DEF FrameStep
<1>3. CASE EndTx
  <2>1. phase = "ran" /\ phase' = "swept" /\ UNCHANGED <<frames, result>>
    BY <1>3 DEF EndTx
  <2>2. GasTotal' = GasTotal
    BY <2>1 DEF GasTotal
  <2>3. GasTotal' \in Nat
    BY <2>1, GasCounted DEF FrameInv
  <2> QED
    BY <2>1, <2>2, <2>3 DEF GasShrinks
<1> QED
  BY <1>0, <1>1, <1>2, <1>3, Zenon DEF Next

-----------------------------------------------------------------------------
\* The results.

\* Every environment that a frame of call_context.go may be thrown back to leaves the
\* old contracts alone, and in every one the accounts of the running frames are touched.
THEOREM StateInvariance == Spec => []StateInv
BY FrameInvariance, StateInit, StateNext, PTL DEF Spec

\* EIP-6780: whatever frames create, destroy, revert and sweep, a contract that was there
\* before the transaction keeps its code.
THEOREM OldCodeSurvives == Spec => []CodeSurvives
<1>1. StateInv => CodeSurvives
  BY DEF StateInv, Fit, Kept, Old, CodeSurvives
<1> QED
  BY <1>1, StateInvariance, PTL

\* cleanTouchedEmptyAccounts leaves no storage behind without its account, although a
\* frame may go on writing to an account that a frame above it has destroyed.
THEOREM SweepLeavesNoOrphans == Spec => []NoOrphanStorage
<1>1. StateInv => NoOrphanStorage
  BY DEF StateInv
<1> QED
  BY <1>1, StateInvariance, PTL

\* Calls, failures, reverts and self-destructions of call_context.go make no coins, and
\* lose none but those of accounts that the transaction both created and destroyed.
THEOREM CoinsKept == Spec => []NothingMinted
<1>1. StateInv => NothingMinted
  BY DEF StateInv, Fit, Solvent, NothingMinted
<1> QED
  BY <1>1, StateInvariance, PTL

\* The gas of all frames together never grows: not by the stipend of a call that sends
\* value, a refused or failed call that gives its gas back, or eip150's rounding.
THEOREM NoGasMade == Spec => GasNotMade
<1>1. Init => Unanswered
  BY DEF Init, Unanswered
<1>2. FrameInv /\ FrameInv' /\ Unanswered /\ [Next]_vars => Unanswered' /\ [GasTotal' <= GasTotal]_vars
  <2> SUFFICES ASSUME FrameInv, FrameInv', Unanswered, [Next]_vars
               PROVE  Unanswered' /\ [GasTotal' <= GasTotal]_vars
    OBVIOUS
  <2>1. CASE Next
    BY <2>1, StepGas DEF GasShrinks, Unanswered
  <2>2. CASE UNCHANGED vars
    BY <2>2 DEF vars, Unanswered
  <2> QED
    BY <2>1, <2>2
<1> QED
  BY <1>1, <1>2, FrameInvariance, PTL DEF Spec, GasNotMade
=============================================================================
