--------------------------- MODULE JobDeliveryProofs ---------------------------
(***************************************************************************)
(* Proofs about JobDelivery.                                               *)
(***************************************************************************)
EXTENDS JobDelivery, SequenceTheorems, FiniteSetTheorems, WellFoundedInduction, TLAPS

--------------------------------------------------------------------------------
(* The queue, as the set of its deliveries.                                *)

\* A set of natural numbers has a least one.
LEMMA Least ==
  ASSUME NEW T \in SUBSET Nat, T # {}
  PROVE  \E n \in T : \A m \in T : n <= m
<1>1. PICK x \in T : \A y \in T : ~ (<<y, x>> \in OpToRel(<, Nat))
  BY NatLessThanWellFounded, WFMin
<1>2. ASSUME NEW y \in T PROVE x <= y
  <2>1. <<y, x>> \in Nat \X Nat
    OBVIOUS
  <2>2. ~(y < x)
    BY <1>1, <2>1 DEF OpToRel
  <2> QED
    BY <2>2
<1> QED
  BY <1>2

\* The function that Without is made of: what is kept of the first n deliveries.
Keeps(q, S, N, f) ==
  f = [n \in 0..N |->
         IF n = 0 THEN <<>>
         ELSE IF q[n].id \in S THEN f[n - 1] ELSE Append(f[n - 1], q[n])]

LEMMA KeepsExists ==
  ASSUME NEW q, NEW S, NEW N \in Nat
  PROVE  \E f : Keeps(q, S, N, f)
<1> DEFINE T == {n \in Nat : ~ \E f : Keeps(q, S, n, f)}
<1>1. SUFFICES ASSUME T # {} PROVE FALSE
  OBVIOUS
<1>2. PICK n \in T : \A m \in T : n <= m
  <2> T \in SUBSET Nat
    OBVIOUS
  <2> HIDE DEF T
  <2> QED
    BY <1>1, Least
<1>3. CASE n = 0
  <2>1. Keeps(q, S, 0, [m \in 0..0 |-> <<>>])
    BY DEF Keeps
  <2> QED
    BY <2>1, <1>3
<1>4. CASE n # 0
  <2>1. n - 1 \in Nat /\ ~(n <= n - 1)
    BY <1>4
  <2>2. n - 1 \notin T
    BY <1>2, <2>1
  <2>3. PICK g : Keeps(q, S, n - 1, g)
    BY <2>1, <2>2
  <2> DEFINE last == IF q[n].id \in S THEN g[n - 1] ELSE Append(g[n - 1], q[n])
             f == [m \in 0..n |-> IF m = n THEN last ELSE g[m]]
  <2>4. \A m \in 0..n : f[m] = IF m = n THEN last ELSE g[m]
    OBVIOUS
  <2>5. f[n] = last /\ f[n - 1] = g[n - 1]
    BY <2>1, <2>4
  <2>6. ASSUME NEW m \in 0..n
        PROVE  f[m] = IF m = 0 THEN <<>>
                      ELSE IF q[m].id \in S THEN f[m - 1] ELSE Append(f[m - 1], q[m])
    <3>1. CASE m = n
      BY <3>1, <2>5, <1>4
    <3>2. CASE m # n
      <4>1. m \in 0..(n - 1) /\ f[m] = g[m]
        BY <3>2, <2>4
      <4>2. m # 0 => m - 1 \in 0..n /\ m - 1 # n
        BY <4>1
      <4>3. m # 0 => f[m - 1] = g[m - 1]
        BY <4>2, <2>4
      <4> HIDE DEF f
      <4> QED
        BY <2>3, <4>1, <4>3 DEF Keeps
    <3> QED
      BY <3>1, <3>2
  <2>7. Keeps(q, S, n, f)
    <3>1. f = [m \in 0..n |-> f[m]]
      OBVIOUS
    <3> HIDE DEF f
    <3> QED
      BY <2>6, <3>1 DEF Keeps
  <2> QED
    BY <2>7
<1> QED
  BY <1>3, <1>4
\* What the deliveries in t owe to the first n in q: t holds those of the first n
\* whose id is not in S, each from a place of its own.
Sifted(q, S, n, t) ==
  /\ \A j \in DOMAIN t : \E k \in 1..n : t[j] = q[k] /\ q[k].id \notin S
  /\ \A k \in 1..n : q[k].id \notin S => \E j \in DOMAIN t : t[j] = q[k]
  /\ \A i, j \in DOMAIN t : i # j => \E k, l \in 1..n : k # l /\ t[i] = q[k] /\ t[j] = q[l]

\* One more delivery is appended, or left out.
LEMMA SiftedStep ==
  ASSUME NEW D, NEW q \in Seq(D), NEW S, NEW n \in 1..Len(q), NEW t \in Seq(D),
         Sifted(q, S, n - 1, t),
         NEW u, u = IF q[n].id \in S THEN t ELSE Append(t, q[n])
  PROVE  u \in Seq(D) /\ Sifted(q, S, n, u)
<1>1. q[n] \in D
  OBVIOUS
<1>2. /\ n \in 1..n /\ \A k \in 1..(n - 1) : k \in 1..n /\ k # n
      /\ \A k \in 1..n : k \in 1..(n - 1) \/ k = n
  OBVIOUS
<1>a. \A j \in DOMAIN t : \E k \in 1..(n - 1) : t[j] = q[k] /\ q[k].id \notin S
  BY DEF Sifted
<1>b. \A k \in 1..(n - 1) : q[k].id \notin S => \E j \in DOMAIN t : t[j] = q[k]
  BY DEF Sifted
<1>c. \A i, j \in DOMAIN t :
        i # j => \E k, l \in 1..(n - 1) : k # l /\ t[i] = q[k] /\ t[j] = q[l]
  BY DEF Sifted
<1>3. CASE q[n].id \in S
  <2>1. u = t
    BY <1>3
  <2>2. \A j \in DOMAIN t : \E k \in 1..n : t[j] = q[k] /\ q[k].id \notin S
    BY <1>a, <1>2
  <2>3. \A k \in 1..n : q[k].id \notin S => \E j \in DOMAIN t : t[j] = q[k]
    BY <1>b, <1>2, <1>3
  <2>4. \A i, j \in DOMAIN t : i # j => \E k, l \in 1..n : k # l /\ t[i] = q[k] /\ t[j] = q[l]
    BY <1>c, <1>2
  <2>5. Sifted(q, S, n, t)
    BY <2>2, <2>3, <2>4 DEF Sifted
  <2> QED
    BY <2>1, <2>5
<1>4. CASE q[n].id \notin S
  <2>1. u = Append(t, q[n])
    BY <1>4
  <2>2. /\ u \in Seq(D) /\ DOMAIN u = 1..(Len(t) + 1)
        /\ u[Len(t) + 1] = q[n]
        /\ \A j \in 1..Len(t) : u[j] = t[j]
    BY <2>1, <1>1
  <2>3. DOMAIN u = DOMAIN t \cup {Len(t) + 1} /\ DOMAIN t = 1..Len(t)
    BY <2>2
  <2>4. \A j \in DOMAIN u : \E k \in 1..n : u[j] = q[k] /\ q[k].id \notin S
    <3>1. ASSUME NEW j \in DOMAIN t PROVE \E k \in 1..n : u[j] = q[k] /\ q[k].id \notin S
      BY <2>2, <2>3, <1>2, <1>a
    <3>2. \E k \in 1..n : u[Len(t) + 1] = q[k] /\ q[k].id \notin S
      BY <2>2, <1>2, <1>4
    <3> QED
      BY <2>3, <3>1, <3>2
  <2>5. \A k \in 1..n : q[k].id \notin S => \E j \in DOMAIN u : u[j] = q[k]
    BY <2>2, <2>3, <1>2, <1>b
  <2>6. ASSUME NEW i \in DOMAIN u, NEW j \in DOMAIN u, i # j
        PROVE  \E k, l \in 1..n : k # l /\ u[i] = q[k] /\ u[j] = q[l]
    <3>1. CASE i \in DOMAIN t /\ j \in DOMAIN t
      <4>1. PICK k \in 1..(n - 1), l \in 1..(n - 1) : k # l /\ t[i] = q[k] /\ t[j] = q[l]
        BY <3>1, <2>6, <1>c
      <4> QED
        BY <4>1, <3>1, <2>2, <2>3, <1>2
    <3>2. CASE i \in DOMAIN t /\ j = Len(t) + 1
      <4>1. PICK k \in 1..(n - 1) : t[i] = q[k]
        BY <3>2, <1>a
      <4> QED
        BY <4>1, <3>2, <2>2, <2>3, <1>2
    <3>3. CASE j \in DOMAIN t /\ i = Len(t) + 1
      <4>1. PICK k \in 1..(n - 1) : t[j] = q[k]
        BY <3>3, <1>a
      <4> QED
        BY <4>1, <3>3, <2>2, <2>3, <1>2
    <3> QED
      BY <3>1, <3>2, <3>3, <2>3, <2>6
  <2> QED
    BY <2>2, <2>4, <2>5, <2>6 DEF Sifted
<1> QED
  BY <1>3, <1>4

\* The filter keeps what it should, once each, and nothing else.
LEMMA WithoutSifts ==
  ASSUME NEW D, NEW q \in Seq(D), NEW S
  PROVE  Without(q, S) \in Seq(D) /\ Sifted(q, S, Len(q), Without(q, S))
<1> DEFINE f == CHOOSE g : Keeps(q, S, Len(q), g)
<1>1. Keeps(q, S, Len(q), f)
  <2>1. Len(q) \in Nat
    OBVIOUS
  <2>2. \E g : Keeps(q, S, Len(q), g)
    BY <2>1, KeepsExists
  <2> QED
    BY <2>2
<1>2. Without(q, S) = f[Len(q)]
  BY DEF Without, Keeps
<1> HIDE DEF f
<1> DEFINE T == {n \in 0..Len(q) : ~(f[n] \in Seq(D) /\ Sifted(q, S, n, f[n]))}
<1>3. T = {}
  <2>1. SUFFICES ASSUME T # {} PROVE FALSE
    OBVIOUS
  <2>2. PICK n \in T : \A m \in T : n <= m
    <3> T \in SUBSET Nat
      OBVIOUS
    <3> HIDE DEF T
    <3> QED
      BY <2>1, Least
  <2>3. CASE n = 0
    <3>1. f[0] = <<>>
      BY <1>1 DEF Keeps
    <3>2. DOMAIN <<>> = {} /\ 1..0 = {} /\ <<>> \in Seq(D)
      OBVIOUS
    <3>3. Sifted(q, S, 0, <<>>)
      BY <3>2 DEF Sifted
    <3> QED
      BY <2>3, <3>1, <3>2, <3>3
  <2>4. CASE n # 0
    <3>1. n - 1 \in 0..Len(q) /\ n \in 1..Len(q) /\ ~(n <= n - 1)
      BY <2>4
    <3>2. n - 1 \notin T
      BY <2>2, <3>1
    <3>3. f[n - 1] \in Seq(D) /\ Sifted(q, S, n - 1, f[n - 1])
      BY <3>1, <3>2
    <3>4. f[n] = IF q[n].id \in S THEN f[n - 1] ELSE Append(f[n - 1], q[n])
      BY <1>1, <3>1, <2>4 DEF Keeps
    <3> QED
      BY <3>1, <3>3, <3>4, SiftedStep
  <2> QED
    BY <2>3, <2>4
<1> QED
  <2>1. Len(q) \in 0..Len(q)
    OBVIOUS
  <2> QED
    BY <1>2, <1>3, <2>1

--------------------------------------------------------------------------------
(* The deliveries of a queue, and what each change of it does to them.     *)

Members(q) == {q[k] : k \in DOMAIN q}

\* No run is in the queue twice.
Distinct(q) == \A k, l \in DOMAIN q : k # l => q[k].run # q[l].run

LEMMA WithoutMembers ==
  ASSUME NEW q \in Seq(Delivery), NEW S
  PROVE  /\ Without(q, S) \in Seq(Delivery)
         /\ Members(Without(q, S)) = {d \in Members(q) : d.id \notin S}
         /\ Distinct(q) => Distinct(Without(q, S))
<1> DEFINE w == Without(q, S)
<1>1. w \in Seq(Delivery) /\ Sifted(q, S, Len(q), w) /\ DOMAIN q = 1..Len(q)
  BY WithoutSifts
<1> HIDE DEF w
<1>a. \A j \in DOMAIN w : \E k \in DOMAIN q : w[j] = q[k] /\ q[k].id \notin S
  BY <1>1 DEF Sifted
<1>b. \A k \in DOMAIN q : q[k].id \notin S => \E j \in DOMAIN w : w[j] = q[k]
  BY <1>1 DEF Sifted
<1>c. \A i, j \in DOMAIN w :
        i # j => \E k, l \in DOMAIN q : k # l /\ w[i] = q[k] /\ w[j] = q[l]
  <2>1. SUFFICES ASSUME NEW i \in DOMAIN w, NEW j \in DOMAIN w, i # j
                 PROVE  \E k, l \in DOMAIN q : k # l /\ w[i] = q[k] /\ w[j] = q[l]
    OBVIOUS
  <2>2. PICK k \in 1..Len(q), l \in 1..Len(q) : k # l /\ w[i] = q[k] /\ w[j] = q[l]
    BY <2>1, <1>1 DEF Sifted
  <2>3. k \in DOMAIN q /\ l \in DOMAIN q
    BY <1>1
  <2> QED
    BY <2>2, <2>3
<1>2. Members(w) = {d \in Members(q) : d.id \notin S}
  <2>1. ASSUME NEW d \in Members(w) PROVE d \in Members(q) /\ d.id \notin S
    BY <1>a DEF Members
  <2>2. ASSUME NEW d \in Members(q), d.id \notin S PROVE d \in Members(w)
    BY <1>b, <2>2 DEF Members
  <2> QED
    BY <2>1, <2>2
<1>3. Distinct(q) => Distinct(w)
  BY <1>c DEF Distinct
<1> QED
  BY <1>1, <1>2, <1>3 DEF w

LEMMA AppendMembers ==
  ASSUME NEW q \in Seq(Delivery), NEW d \in Delivery
  PROVE  /\ Append(q, d) \in Seq(Delivery)
         /\ Members(Append(q, d)) = Members(q) \cup {d}
         /\ Distinct(q) /\ (\A e \in Members(q) : e.run # d.run) => Distinct(Append(q, d))
<1> DEFINE w == Append(q, d)
<1>1. /\ w \in Seq(Delivery) /\ DOMAIN w = DOMAIN q \cup {Len(q) + 1}
      /\ w[Len(q) + 1] = d /\ \A j \in DOMAIN q : w[j] = q[j] /\ j # Len(q) + 1
  OBVIOUS
<1> HIDE DEF w
<1>2. Members(w) = Members(q) \cup {d}
  BY <1>1 DEF Members
<1>3. Distinct(q) /\ (\A e \in Members(q) : e.run # d.run) => Distinct(w)
  BY <1>1 DEF Members, Distinct
<1> QED
  BY <1>1, <1>2, <1>3 DEF w

LEMMA RemoveMembers ==
  ASSUME NEW q \in Seq(Delivery), NEW k \in DOMAIN q, Distinct(q)
  PROVE  /\ RemoveAt(q, k) \in Seq(Delivery)
         /\ Members(RemoveAt(q, k)) = Members(q) \ {q[k]}
         /\ Distinct(RemoveAt(q, k))
<1> DEFINE w == RemoveAt(q, k)
           a == SubSeq(q, 1, k - 1)
           b == SubSeq(q, k + 1, Len(q))
<1>1. a \in Seq(Delivery) /\ Len(a) = k - 1 /\ \A j \in 1..(k - 1) : a[j] = q[j]
  BY SubSeqProperties
<1>2. /\ b \in Seq(Delivery) /\ Len(b) = Len(q) - k
      /\ \A j \in 1..(Len(q) - k) : b[j] = q[k + j]
  BY SubSeqProperties
<1> HIDE DEF a, b
<1>d. w = a \o b
  BY DEF RemoveAt, a, b
<1>e. /\ a \o b \in Seq(Delivery) /\ Len(a \o b) = (k - 1) + (Len(q) - k)
      /\ \A j \in 1..((k - 1) + (Len(q) - k)) :
           (a \o b)[j] = IF j <= k - 1 THEN a[j] ELSE b[j - (k - 1)]
  <2>1. /\ a \o b \in Seq(Delivery) /\ Len(a \o b) = Len(a) + Len(b)
        /\ \A j \in 1..(Len(a) + Len(b)) :
             (a \o b)[j] = IF j <= Len(a) THEN a[j] ELSE b[j - Len(a)]
    BY <1>1, <1>2, ConcatProperties
  <2>2. Len(a) = k - 1 /\ Len(b) = Len(q) - k
    BY <1>1, <1>2
  <2> QED
    BY <2>1, <2>2, Zenon
<1> HIDE DEF w
<1>3. /\ w \in Seq(Delivery) /\ DOMAIN w = 1..(Len(q) - 1)
      /\ \A j \in 1..(k - 1) : w[j] = q[j]
      /\ \A j \in k..(Len(q) - 1) : w[j] = q[j + 1]
  <2>1. w \in Seq(Delivery) /\ Len(w) = Len(q) - 1 /\ Len(q) \in Nat /\ k \in 1..Len(q)
    BY <1>d, <1>e
  <2>2. ASSUME NEW j \in 1..(k - 1) PROVE w[j] = q[j]
    <3>1. j \in 1..((k - 1) + (Len(q) - k)) /\ j <= k - 1
      BY <2>1
    <3> QED
      BY <3>1, <1>d, <1>e, <1>1
  <2>3. ASSUME NEW j \in k..(Len(q) - 1) PROVE w[j] = q[j + 1]
    <3>1. /\ j \in 1..((k - 1) + (Len(q) - k)) /\ ~(j <= k - 1)
          /\ j - (k - 1) \in 1..(Len(q) - k) /\ k + (j - (k - 1)) = j + 1
      BY <2>1
    <3> QED
      BY <3>1, <1>d, <1>e, <1>2
  <2> QED
    BY <2>1, <2>2, <2>3
<1>4. \A j \in DOMAIN w : w[j] = q[IF j < k THEN j ELSE j + 1]
  BY <1>3
<1>5. ASSUME NEW j \in DOMAIN q, j # k
      PROVE  q[j] \in Members(w)
  <2>1. CASE j < k
    BY <2>1, <1>3 DEF Members
  <2>2. CASE j > k
    <3>1. j - 1 \in k..(Len(q) - 1) /\ j - 1 \in DOMAIN w /\ (j - 1) + 1 = j
      BY <2>2, <1>3
    <3> QED
      BY <3>1, <1>3 DEF Members
  <2> QED
    BY <1>5, <2>1, <2>2
<1>6. \A j \in DOMAIN w : \E l \in DOMAIN q : l # k /\ w[j] = q[l]
  BY <1>3, <1>4
<1>7. Members(w) = Members(q) \ {q[k]}
  BY <1>5, <1>6 DEF Members, Distinct
<1>8. Distinct(w)
  <2>1. SUFFICES ASSUME NEW i \in DOMAIN w, NEW j \in DOMAIN w, i # j
                 PROVE  w[i].run # w[j].run
    BY DEF Distinct
  <2> DEFINE m == IF i < k THEN i ELSE i + 1
             n == IF j < k THEN j ELSE j + 1
  <2>2. m \in DOMAIN q /\ n \in DOMAIN q /\ m # n
    BY <1>3, <2>1
  <2> QED
    BY <2>2, <1>4 DEF Distinct
<1> QED
  BY <1>3, <1>7, <1>8 DEF w

LEMMA TailMembers ==
  ASSUME NEW q \in Seq(Delivery), q # <<>>, Distinct(q)
  PROVE  /\ Tail(q) \in Seq(Delivery) /\ Head(q) \in Members(q)
         /\ Members(Tail(q)) = Members(q) \ {Head(q)}
         /\ Distinct(Tail(q))
<1> DEFINE w == Tail(q)
<1>1. /\ w \in Seq(Delivery) /\ DOMAIN w = 1..(Len(q) - 1) /\ DOMAIN q = 1..Len(q)
      /\ \A j \in DOMAIN w : w[j] = q[j + 1]
      /\ Head(q) = q[1] /\ 1 \in DOMAIN q
  BY HeadTailProperties, EmptySeq
<1> HIDE DEF w
<1>2. ASSUME NEW j \in DOMAIN q, j # 1
      PROVE  q[j] \in Members(w)
  <2>1. j - 1 \in DOMAIN w /\ (j - 1) + 1 = j
    BY <1>1, <1>2
  <2> QED
    BY <2>1, <1>1 DEF Members
<1>3. \A j \in DOMAIN w : j + 1 \in DOMAIN q /\ j + 1 # 1
  BY <1>1
<1>4. Members(w) = Members(q) \ {Head(q)}
  <2>1. ASSUME NEW j \in DOMAIN w PROVE w[j] \in Members(q) /\ w[j] # Head(q)
    BY <1>1, <1>3 DEF Members, Distinct
  <2>2. ASSUME NEW d \in Members(q), d # Head(q) PROVE d \in Members(w)
    BY <1>1, <1>2, <2>2 DEF Members
  <2>3. \A d \in Members(w) : d \in Members(q) /\ d # Head(q)
    BY <2>1 DEF Members
  <2> QED
    BY <2>2, <2>3
<1>5. Distinct(w)
  BY <1>1, <1>3 DEF Distinct
<1> QED
  BY <1>1, <1>4, <1>5 DEF w, Members

--------------------------------------------------------------------------------
(* Type correctness.                                                       *)

\* How the table of jobs, the calls in progress and the life of the session
\* hang together.
Shape ==
  /\ \A r \in Runs : status[r] # "free" => name[r] \in Ids
  /\ \A i \in Ids : row[i] # NoRun => status[row[i]] # "free" /\ name[row[i]] = i
  /\ \A r \in Runs : status[r] \in Active => r \in alive
  /\ \A r \in alive : status[r] \in Active \cup {"cancelled"}
  /\ hub.pc = "idle" => hub.runs = {}
  /\ \A r \in hub.runs : status[r] # "free"
  /\ shell.pc # "idle" => shell.run \in Runs /\ status[shell.run] # "free"
  /\ (manager = "up") <=> (session # "closed")
  /\ session # "live" => inbox = {}
  /\ IsFiniteSet(inbox)

TypeInv == TypeOK /\ Shape

LEMMA InitTyped == ASSUME JobAssumption, Init PROVE TypeInv
<1>1. TypeOK
  BY DEF JobAssumption, Init, TypeOK, Runs, Epochs, Active, HubIdle, ShellIdle, WaiterIdle
<1>2. Shape
  BY FS_EmptySet DEF JobAssumption, Init, Shape, Runs, Active, HubIdle, ShellIdle
<1> QED
  BY <1>1, <1>2 DEF TypeInv

\* A registration keeps the table well formed.
LEMMA RegisterTyped ==
  ASSUME TypeInv, JobAssumption, NEW r \in Runs, NEW i \in Ids, NEW as \in Active,
         Register(r, i, as)
  PROVE  /\ row' \in [Ids -> Runs \cup {NoRun}]
         /\ status' \in [Runs -> Active \cup {"free", "finished", "cancelled"}]
         /\ alive' \subseteq Runs /\ name' \in [Runs -> Ids \cup {NoRun}]
         /\ born' \in [Runs -> Epochs]
         /\ \A s \in Runs : status'[s] # "free" => name'[s] \in Ids
         /\ \A k \in Ids : row'[k] # NoRun => status'[row'[k]] # "free" /\ name'[row'[k]] = k
         /\ \A s \in Runs : status'[s] \in Active => s \in alive'
         /\ \A s \in alive' : status'[s] \in Active \cup {"cancelled"}
         /\ \A s \in Runs : status[s] # "free" => status'[s] # "free"
         /\ status'[r] # "free"
<1>1. /\ row' = [row EXCEPT ![i] = r] /\ status' = [status EXCEPT ![r] = as]
      /\ alive' = alive \cup {r} /\ name' = [name EXCEPT ![r] = i]
      /\ born' = [born EXCEPT ![r] = epoch] /\ status[r] = "free"
  BY DEF Register
<1>2. as # "free" /\ as \in {"queued", "running"}
  BY DEF Active
<1>3. TypeOK /\ Shape
  BY DEF TypeInv
<1>4. \A k \in Ids : row[k] # r
  <2>1. \A k \in Ids : row[k] # NoRun => status[row[k]] # "free"
    BY <1>3 DEF Shape
  <2>2. r # NoRun
    BY DEF JobAssumption, Runs
  <2>3. status[r] = "free"
    BY <1>1
  <2> QED
    BY <2>1, <2>2, <2>3
<1>5. /\ row \in [Ids -> Runs \cup {NoRun}] /\ name \in [Runs -> Ids \cup {NoRun}]
      /\ status \in [Runs -> Active \cup {"free", "finished", "cancelled"}]
      /\ alive \subseteq Runs /\ born \in [Runs -> Epochs] /\ epoch \in Epochs
  BY <1>3 DEF TypeOK
<1>6. /\ \A k \in Ids : row'[k] = IF k = i THEN r ELSE row[k]
      /\ \A s \in Runs : status'[s] = IF s = r THEN as ELSE status[s]
      /\ \A s \in Runs : name'[s] = IF s = r THEN i ELSE name[s]
  BY <1>1, <1>5
<1>7. /\ row' \in [Ids -> Runs \cup {NoRun}]
      /\ status' \in [Runs -> Active \cup {"free", "finished", "cancelled"}]
      /\ alive' \subseteq Runs /\ name' \in [Runs -> Ids \cup {NoRun}]
      /\ born' \in [Runs -> Epochs]
  BY <1>1, <1>5
<1>8. /\ \A s \in Runs : status'[s] # "free" => name'[s] \in Ids
      /\ \A s \in Runs : status'[s] \in Active => s \in alive'
      /\ \A s \in alive' : status'[s] \in Active \cup {"cancelled"}
      /\ \A s \in Runs : status[s] # "free" => status'[s] # "free"
      /\ status'[r] # "free"
  <2>1. /\ \A s \in Runs : status[s] # "free" => name[s] \in Ids
        /\ \A s \in Runs : status[s] \in Active => s \in alive
        /\ \A s \in alive : status[s] \in Active \cup {"cancelled"}
    BY <1>3 DEF Shape
  <2>2. alive' = alive \cup {r} /\ as \in Active /\ as # "free"
    BY <1>1, <1>2
  <2>3. \A s \in Runs : status'[s] # "free" => name'[s] \in Ids
    BY <2>1, <1>6
  <2>4. \A s \in Runs : status'[s] \in Active => s \in alive'
    BY <2>1, <2>2, <1>6
  <2>5. \A s \in alive' : status'[s] \in Active \cup {"cancelled"}
    BY <2>1, <2>2, <1>5, <1>6
  <2>6. (\A s \in Runs : status[s] # "free" => status'[s] # "free") /\ status'[r] # "free"
    BY <2>2, <1>6
  <2> QED
    BY <2>3, <2>4, <2>5, <2>6
<1>9. \A k \in Ids : row'[k] # NoRun => status'[row'[k]] # "free" /\ name'[row'[k]] = k
  <2>1. \A k \in Ids : row[k] # NoRun =>
          row[k] \in Runs /\ row[k] # r /\ status[row[k]] # "free" /\ name[row[k]] = k
    BY <1>3, <1>4, <1>5 DEF Shape
  <2>2. ASSUME NEW k \in Ids, row'[k] # NoRun
        PROVE  status'[row'[k]] # "free" /\ name'[row'[k]] = k
    <3>1. CASE k = i
      <4>1. row'[k] = r /\ status'[r] = as /\ name'[r] = i
        BY <3>1, <1>6
      <4> QED
        BY <3>1, <4>1, <1>2
    <3>2. CASE k # i
      <4>1. row'[k] = row[k] /\ row[k] # NoRun
        BY <3>2, <1>6, <2>2
      <4>2. row[k] \in Runs /\ row[k] # r /\ status[row[k]] # "free" /\ name[row[k]] = k
        BY <2>1, <4>1
      <4>3. status'[row[k]] = status[row[k]] /\ name'[row[k]] = name[row[k]]
        BY <1>6, <4>2
      <4> QED
        BY <4>1, <4>2, <4>3
    <3> QED
      BY <3>1, <3>2
  <2> QED
    BY <2>2
<1> QED
  BY <1>7, <1>8, <1>9

LEMMA CancelledFacts ==
  ASSUME TypeInv, NEW S \in SUBSET ActiveIds
  PROVE  /\ Cancelled(S) \in [Runs -> Active \cup {"free", "finished", "cancelled"}]
         /\ \A r \in Runs :
              \/ Cancelled(S)[r] = status[r]
              \/ Cancelled(S)[r] = "cancelled" /\ status[r] \in Active /\ \E i \in S : row[i] = r
         /\ \A i \in S : Cancelled(S)[row[i]] = "cancelled"
BY DEF TypeInv, TypeOK, Cancelled, ActiveIds, Tracked, Active

\* A step that only cancels active jobs, and may leave the shell, keeps the table well formed.
LEMMA CancelShape ==
  ASSUME TypeInv,
         \A r \in Runs : \/ status'[r] = status[r]
                         \/ status'[r] = "cancelled" /\ status[r] \in Active,
         UNCHANGED <<row, alive, name, hub>>, UNCHANGED <<manager, session, inbox>>,
         shell' \in {shell, ShellIdle}
  PROVE  Shape'
<1>1. /\ \A r \in Runs : status'[r] # "free" => status[r] # "free"
      /\ \A r \in Runs : status[r] # "free" => status'[r] # "free"
      /\ \A r \in Runs : status'[r] \in Active => status[r] \in Active
      /\ \A r \in Runs : status'[r] = status[r] \/ status'[r] = "cancelled"
  BY DEF Active
<1>2. /\ row' = row /\ alive' = alive /\ name' = name /\ hub' = hub
      /\ manager' = manager /\ session' = session /\ inbox' = inbox
  OBVIOUS
<1>3. /\ row \in [Ids -> Runs \cup {NoRun}] /\ alive \subseteq Runs /\ hub.runs \subseteq Runs
  BY DEF TypeInv, TypeOK
<1>4. Shape
  BY DEF TypeInv
<1>5. \A r \in Runs : status'[r] # "free" => name'[r] \in Ids
  BY <1>1, <1>2, <1>4 DEF Shape
<1>6. \A i \in Ids : row'[i] # NoRun => status'[row'[i]] # "free" /\ name'[row'[i]] = i
  <2>1. \A i \in Ids : row[i] # NoRun =>
          row[i] \in Runs /\ status[row[i]] # "free" /\ name[row[i]] = i
    BY <1>3, <1>4 DEF Shape
  <2> QED
    BY <2>1, <1>1, <1>2
<1>7. \A r \in Runs : status'[r] \in Active => r \in alive'
  BY <1>1, <1>2, <1>4 DEF Shape
<1>8. \A r \in alive' : status'[r] \in Active \cup {"cancelled"}
  <2>1. \A r \in alive : r \in Runs /\ status[r] \in Active \cup {"cancelled"}
    BY <1>3, <1>4 DEF Shape
  <2> QED
    BY <2>1, <1>1, <1>2
<1>9. (hub'.pc = "idle" => hub'.runs = {}) /\ \A r \in hub'.runs : status'[r] # "free"
  <2>1. (hub.pc = "idle" => hub.runs = {}) /\ \A r \in hub.runs : status[r] # "free"
    BY <1>4 DEF Shape
  <2> QED
    BY <2>1, <1>1, <1>2, <1>3
<1>10. shell'.pc # "idle" => shell'.run \in Runs /\ status'[shell'.run] # "free"
  <2>1. CASE shell' = shell
    <3>1. shell.pc # "idle" => shell.run \in Runs /\ status[shell.run] # "free"
      BY <1>4 DEF Shape
    <3> QED
      BY <2>1, <3>1, <1>1
  <2>2. CASE shell' = ShellIdle
    BY <2>2 DEF ShellIdle
  <2> QED
    BY <2>1, <2>2
<1>11. /\ (manager' = "up") <=> (session' # "closed")
       /\ session' # "live" => inbox' = {}
       /\ IsFiniteSet(inbox')
  BY <1>2, <1>4 DEF Shape
<1> QED
  BY <1>5, <1>6, <1>7, <1>8, <1>9, <1>10, <1>11 DEF Shape

LEMMA WithoutTyped ==
  ASSUME NEW q \in Seq(Delivery), NEW S
  PROVE  Without(q, S) \in Seq(Delivery)
BY WithoutMembers

LEMMA MarkRunningTyped ==
  ASSUME TypeInv, JobAssumption, NEW r \in Runs, markRunning(r)
  PROVE  TypeInv'
<1>1. TypeOK'
  BY DEF TypeInv, TypeOK, Active, markRunning, table, marks, deliveries, transcript, history
<1>2. Shape'
  BY DEF TypeInv, TypeOK, Shape, markRunning, table, marks, deliveries, transcript, history,
     Active
<1> QED
  BY <1>1, <1>2 DEF TypeInv

LEMMA EvictTimerTyped ==
  ASSUME TypeInv, JobAssumption, NEW i \in Ids, EvictTimer(i)
  PROVE  TypeInv'
<1>1. TypeOK'
  BY DEF TypeInv, TypeOK, Shape, EvictTimer, Evicted, table, marks, deliveries, transcript,
     history
<1>2. Shape'
  BY DEF TypeInv, TypeOK, Shape, EvictTimer, Evicted, table, marks, deliveries, transcript,
     history, Active
<1> QED
  BY <1>1, <1>2 DEF TypeInv

LEMMA ExecuteCancelTyped ==
  ASSUME TypeInv, JobAssumption, NEW i \in Ids, executeCancel(i)
  PROVE  TypeInv'
<1> DEFINE new == Cancelled({i})
<1>0. /\ new \in [Runs -> Active \cup {"free", "finished", "cancelled"}]
      /\ \A r \in Runs : new[r] = status[r] \/ (new[r] = "cancelled" /\ status[r] \in Active)
  <2>1. {i} \in SUBSET ActiveIds
    BY DEF executeCancel
  <2> QED
    BY <2>1, CancelledFacts
<1>a. /\ status' = new /\ scheduleEviction({i}) /\ Acknowledge({i})
      /\ UNCHANGED <<row, alive, name, born, watched, flight, manager, transcript, hub, shell,
                     waiter, waits, history>>
  BY DEF executeCancel
<1> HIDE DEF new
<1>1. TypeOK'
  BY <1>0, <1>a, WithoutTyped DEF TypeInv, TypeOK, scheduleEviction, Acknowledge, transcript,
     history
<1>2. Shape'
  <2>1. \A r \in Runs : \/ status'[r] = status[r]
                        \/ status'[r] = "cancelled" /\ status[r] \in Active
    BY <1>0, <1>a
  <2>2. UNCHANGED <<row, alive, name, hub>> /\ UNCHANGED <<manager, session, inbox>>
    BY <1>a DEF transcript
  <2>3. shell' \in {shell, ShellIdle}
    BY <1>a
  <2> QED
    BY <2>1, <2>2, <2>3, CancelShape
<1> QED
  BY <1>1, <1>2 DEF TypeInv

LEMMA RunDeliveryLoopTyped ==
  ASSUME TypeInv, JobAssumption, RunDeliveryLoop
  PROVE  TypeInv'
<1>0. Head(queue) \in Delivery /\ Tail(queue) \in Seq(Delivery)
  BY HeadTailProperties DEF TypeInv, TypeOK, RunDeliveryLoop
<1>1. TypeOK'
  <2>1. flight' \subseteq Held
    BY <1>0 DEF TypeInv, TypeOK, RunDeliveryLoop, Deliver, Delivery, Held
  <2> QED
    BY <1>0, <2>1 DEF TypeInv, TypeOK, RunDeliveryLoop, table, marks, deliveries, transcript,
       history
<1>2. Shape'
  BY DEF TypeInv, Shape, RunDeliveryLoop, table, marks, deliveries, transcript, history
<1> QED
  BY <1>1, <1>2 DEF TypeInv

LEMMA DeliverNextFilteredTyped ==
  ASSUME TypeInv, JobAssumption, DeliverNextFiltered
  PROVE  TypeInv'
<1>0. PICK k \in DOMAIN queue : queue' = RemoveAt(queue, k) /\ Deliver(queue[k], "drain")
  BY DEF DeliverNextFiltered
<1>a. queue[k] \in Delivery /\ queue' \in Seq(Delivery)
  <2>1. queue \in Seq(Delivery) /\ k \in 1..Len(queue)
    BY DEF TypeInv, TypeOK
  <2>2. SubSeq(queue, 1, k - 1) \in Seq(Delivery) /\ SubSeq(queue, k + 1, Len(queue)) \in Seq(Delivery)
    BY <2>1, SubSeqProperties
  <2> QED
    BY <1>0, <2>1, <2>2, ConcatProperties DEF RemoveAt
<1>1. TypeOK'
  <2>1. flight' \subseteq Held
    BY <1>0, <1>a DEF TypeInv, TypeOK, Deliver, Delivery, Held
  <2> QED
    BY <1>a, <2>1 DEF TypeInv, TypeOK, DeliverNextFiltered, table, marks, deliveries,
       transcript, history
<1>2. Shape'
  BY DEF TypeInv, Shape, DeliverNextFiltered, table, marks, deliveries, transcript, history
<1> QED
  BY <1>1, <1>2 DEF TypeInv

LEMMA SinkDoneTyped ==
  ASSUME TypeInv, JobAssumption, NEW f \in flight, SinkDone(f)
  PROVE  TypeInv'
<1>1. TypeOK'
  BY DEF TypeInv, TypeOK, Shape, SinkDone, Held, Entry, table, marks, deliveries, transcript,
     history
<1>2. Shape'
  <2>1. IsFiniteSet(inbox') /\ (session' # "live" => inbox' = {})
    BY FS_AddElement DEF TypeInv, Shape, SinkDone
  <2> QED
    BY <2>1 DEF TypeInv, Shape, SinkDone, table, marks, deliveries, transcript, history
<1> QED
  BY <1>1, <1>2 DEF TypeInv

LEMMA InjectTyped ==
  ASSUME TypeInv, JobAssumption, Inject
  PROVE  TypeInv'
<1>0. ASSUME NEW r \in Runs
      PROVE  told[r] + Cardinality({e \in inbox : e.run = r /\ Fresh(e)}) \in Nat
  <2>1. IsFiniteSet({e \in inbox : e.run = r /\ Fresh(e)})
    <3>1. {e \in inbox : e.run = r /\ Fresh(e)} \subseteq inbox /\ IsFiniteSet(inbox)
      BY DEF TypeInv, Shape
    <3> QED
      BY <3>1, FS_Subset
  <2>2. Cardinality({e \in inbox : e.run = r /\ Fresh(e)}) \in Nat
    BY <2>1, FS_CardinalityType
  <2> QED
    BY <2>2 DEF TypeInv, TypeOK
<1>1. TypeOK'
  <2>1. told' \in [Runs -> Nat]
    BY <1>0 DEF Inject
  <2> QED
    BY <2>1 DEF TypeInv, TypeOK, Inject, table, marks, deliveries, transcript, history
<1>2. Shape'
  BY FS_EmptySet DEF TypeInv, Shape, Inject, table, deliveries, marks
<1> QED
  BY <1>1, <1>2 DEF TypeInv

LEMMA ExecuteJobsSnapshotTyped ==
  ASSUME TypeInv, JobAssumption, NEW S \in SUBSET Ids, executeJobsSnapshot(S)
  PROVE  TypeInv'
<1>1. TypeOK'
  <2>1. queue' \in Seq(Delivery)
    BY WithoutTyped DEF TypeInv, TypeOK, executeJobsSnapshot, Report, Acknowledge
  <2>2. suppressed' \subseteq Ids
    BY DEF TypeInv, TypeOK, Shape, executeJobsSnapshot, Report, Acknowledge, Tracked
  <2>3. told' \in [Runs -> Nat]
    BY DEF TypeInv, TypeOK, executeJobsSnapshot, Report, Tell
  <2> QED
    BY <2>1, <2>2, <2>3 DEF TypeInv, TypeOK, executeJobsSnapshot, table, transcript
<1>2. Shape'
  BY DEF TypeInv, Shape, executeJobsSnapshot, table, transcript
<1> QED
  BY <1>1, <1>2 DEF TypeInv

LEMMA WaitForJobsTyped ==
  ASSUME TypeInv, JobAssumption, NEW S \in SUBSET Ids, WaitForJobs(S)
  PROVE  TypeInv'
<1>1. TypeOK'
  BY DEF TypeInv, TypeOK, Shape, WaitForJobs, Tracked, table, marks, deliveries, transcript,
     history
<1>2. Shape'
  BY DEF TypeInv, TypeOK, Shape, WaitForJobs, Tracked, table, marks, deliveries, transcript,
     history, Active
<1> QED
  BY <1>1, <1>2 DEF TypeInv

LEMMA WaitRacedTyped ==
  ASSUME TypeInv, JobAssumption, WaitRaced
  PROVE  TypeInv'
<1>1. TypeOK'
  BY DEF TypeInv, TypeOK, Shape, WaitRaced, table, marks, deliveries, transcript, history
<1>2. Shape'
  BY DEF TypeInv, TypeOK, Shape, WaitRaced, table, marks, deliveries, transcript, history,
     Active
<1> QED
  BY <1>1, <1>2 DEF TypeInv

LEMMA WaitMessageTyped ==
  ASSUME TypeInv, JobAssumption, WaitMessage
  PROVE  TypeInv'
<1>1. TypeOK'
  BY DEF TypeInv, TypeOK, Shape, WaitMessage, table, marks, deliveries, transcript, history
<1>2. Shape'
  BY DEF TypeInv, TypeOK, Shape, WaitMessage, table, marks, deliveries, transcript, history,
     Active
<1> QED
  BY <1>1, <1>2 DEF TypeInv

LEMMA WaitUnwatchTyped ==
  ASSUME TypeInv, JobAssumption, WaitUnwatch
  PROVE  TypeInv'
<1>0. /\ hub' = IF hub.mail THEN HubIdle ELSE [hub EXCEPT !.pc = "reporting"]
      /\ dropped' \in {dropped, dropped \cup {r \in hub.runs : /\ status[r] = "finished" /\ told[r] = 0
                                                         /\ ~Outstanding(r)
                                                         /\ name[r] \notin suppressed}}
      /\ watched' \subseteq watched
      /\ UNCHANGED <<table, suppressed, deliveries, manager, transcript, shell, waiter, waits, told,
                     restored>>
  BY DEF WaitUnwatch
<1>1. TypeOK'
  <2>1. hub' \in [pc : {"idle", "waiting", "raced", "reporting"}, runs : SUBSET Runs, mail : BOOLEAN]
    BY <1>0 DEF TypeInv, TypeOK, HubIdle
  <2>2. dropped' \subseteq Runs
    BY <1>0 DEF TypeInv, TypeOK
  <2> QED
    BY <1>0, <2>1, <2>2 DEF TypeInv, TypeOK, table, deliveries, transcript
<1>2. Shape'
  <2>1. (hub'.pc = "idle" => hub'.runs = {}) /\ hub'.runs \subseteq hub.runs
    BY <1>0 DEF TypeInv, TypeOK, HubIdle
  <2> QED
    BY <1>0, <2>1 DEF TypeInv, Shape, table, transcript
<1> QED
  BY <1>1, <1>2 DEF TypeInv

LEMMA WaitReportTyped ==
  ASSUME TypeInv, JobAssumption, WaitReport
  PROVE  TypeInv'
<1>1. TypeOK'
  <2>1. queue' \in Seq(Delivery)
    BY WithoutTyped DEF TypeInv, TypeOK, WaitReport, Report, Acknowledge
  <2>2. suppressed' \subseteq Ids
    BY DEF TypeInv, TypeOK, Shape, WaitReport, Report, Acknowledge, Latest
  <2>3. told' \in [Runs -> Nat]
    BY DEF TypeInv, TypeOK, WaitReport, Report, Tell
  <2> QED
    BY <2>1, <2>2, <2>3 DEF TypeInv, TypeOK, WaitReport, HubIdle, table, transcript
<1>2. Shape'
  BY DEF TypeInv, Shape, WaitReport, HubIdle, table, transcript
<1> QED
  BY <1>1, <1>2 DEF TypeInv

LEMMA ForegroundRacedTyped ==
  ASSUME TypeInv, JobAssumption, NEW o \in {"completed", "running", "aborted"},
         ForegroundRaced(o)
  PROVE  TypeInv'
<1>1. TypeOK'
  BY DEF TypeInv, TypeOK, Shape, ForegroundRaced, table, marks, deliveries, transcript, history
<1>2. Shape'
  BY DEF TypeInv, TypeOK, Shape, ForegroundRaced, table, marks, deliveries, transcript,
     history, Active
<1> QED
  BY <1>1, <1>2 DEF TypeInv

LEMMA ForegroundCompletedTyped ==
  ASSUME TypeInv, JobAssumption, ForegroundCompleted
  PROVE  TypeInv'
<1>1. TypeOK'
  BY DEF TypeInv, TypeOK, Shape, ForegroundCompleted, ShellIdle, Tell, table, marks,
     deliveries, transcript, history
<1>2. Shape'
  BY DEF TypeInv, TypeOK, Shape, ForegroundCompleted, ShellIdle, Tell, table, marks,
     deliveries, transcript, history, Active
<1> QED
  BY <1>1, <1>2 DEF TypeInv

LEMMA ForegroundAbortedTyped ==
  ASSUME TypeInv, JobAssumption, ForegroundAborted
  PROVE  TypeInv'
<1> DEFINE mine == {name[shell.run]} \cap ActiveIds
           new == Cancelled(mine)
<1>0. /\ new \in [Runs -> Active \cup {"free", "finished", "cancelled"}]
      /\ \A r \in Runs : new[r] = status[r] \/ (new[r] = "cancelled" /\ status[r] \in Active)
  BY CancelledFacts
<1>a. /\ status' = new /\ timers' \in {timers, timers \cup mine} /\ mine \subseteq Ids
      /\ shell' = ShellIdle
      /\ UNCHANGED <<row, alive, name, born, marks, deliveries, manager, transcript, hub, waiter,
                 waits, dropped, restored>>
  BY DEF ForegroundAborted, scheduleEviction, ActiveIds, Tracked
<1>b. told' \in [Runs -> Nat]
  BY DEF TypeInv, TypeOK, ForegroundAborted, Tell
<1> HIDE DEF new, mine
<1>1. TypeOK'
  BY <1>0, <1>a, <1>b DEF TypeInv, TypeOK, ShellIdle, marks, deliveries, transcript
<1>2. Shape'
  <2>1. \A r \in Runs : \/ status'[r] = status[r]
                        \/ status'[r] = "cancelled" /\ status[r] \in Active
    BY <1>0, <1>a
  <2>2. UNCHANGED <<row, alive, name, hub>> /\ UNCHANGED <<manager, session, inbox>>
    BY <1>a DEF transcript
  <2>3. shell' \in {shell, ShellIdle}
    BY <1>a
  <2> QED
    BY <2>1, <2>2, <2>3, CancelShape
<1> QED
  BY <1>1, <1>2 DEF TypeInv

LEMMA BackgroundedTyped ==
  ASSUME TypeInv, JobAssumption, Backgrounded
  PROVE  TypeInv'
<1>0. shell.run \in Runs /\ name[shell.run] \in Ids
  BY DEF TypeInv, Shape, Backgrounded
<1> DEFINE i == name[shell.run]
           run == row[i]
<1>a. \/ UNCHANGED queue
      \/ /\ i \in FinishedIds
         /\ queue' = IF name[run] \in watched THEN queue
                     ELSE Append(queue, [run |-> run, id |-> name[run], owned |-> row[name[run]] # NoRun])
  BY DEF Backgrounded, Enqueue
<1>b. queue' \in Seq(Delivery)
  <2>1. CASE UNCHANGED queue
    BY <2>1 DEF TypeInv, TypeOK
  <2>2. CASE i \in FinishedIds /\ queue' # queue
    <3>1. run \in Runs /\ name[run] \in Ids
      BY <2>2, <1>0 DEF TypeInv, TypeOK, Shape, FinishedIds, Tracked
    <3>2. [run |-> run, id |-> name[run], owned |-> row[name[run]] # NoRun] \in Delivery
      BY <3>1 DEF Delivery
    <3>3. Append(queue, [run |-> run, id |-> name[run], owned |-> row[name[run]] # NoRun])
            \in Seq(Delivery)
      BY <3>2, AppendProperties DEF TypeInv, TypeOK
    <3> QED
      BY <1>a, <2>2, <3>3
  <2> QED
    BY <1>a, <2>1, <2>2
<1>c. /\ shell' = ShellIdle /\ suppressed' \subseteq suppressed
      /\ dropped' \subseteq dropped \cup ({row[i]} \ {NoRun})
      /\ restored' \subseteq restored \cup {row[i]} /\ (restored' # restored => row[i] # NoRun)
      /\ UNCHANGED <<table, watched, flight, manager, transcript, hub, waiter, waits, told>>
  BY <1>0 DEF Backgrounded, FinishedIds, Tracked
<1>1. TypeOK'
  <2>1. dropped' \subseteq Runs /\ restored' \subseteq Runs
    BY <1>0, <1>c DEF TypeInv, TypeOK
  <2> QED
    BY <1>b, <1>c, <2>1 DEF TypeInv, TypeOK, ShellIdle, table, transcript
<1>2. Shape'
  BY <1>c DEF TypeInv, Shape, ShellIdle, table, transcript
<1> QED
  BY <1>1, <1>2 DEF TypeInv

LEMMA WaitOwnerTyped ==
  ASSUME TypeInv, JobAssumption, NEW b \in BOOLEAN, WaitOwner(b)
  PROVE  TypeInv'
<1> DEFINE new == Cancelled(ActiveIds)
<1>0. /\ new \in [Runs -> Active \cup {"free", "finished", "cancelled"}]
      /\ \A r \in Runs : new[r] = status[r] \/ (new[r] = "cancelled" /\ status[r] \in Active)
  BY CancelledFacts
<1>a. /\ status' \in {status, new} /\ timers' \in {timers, timers \cup ActiveIds}
      /\ ActiveIds \subseteq Ids
      /\ UNCHANGED <<row, alive, name, born, marks, deliveries, manager, transcript, hub, shell,
                     history>>
  BY DEF WaitOwner, scheduleEviction, ActiveIds, Tracked
<1>b. /\ waiter' \in [pc : {"idle", "waiting", "settled"}, awaited : SUBSET Ids,
                      pending : SUBSET Runs, reap : BOOLEAN]
      /\ waits' \in 0..MaxWaits
  <2>1. Unawaited({}, b) \subseteq Ids /\ \A i \in Unawaited({}, b) : row[i] \in Runs
    BY DEF TypeInv, TypeOK, Unawaited, Tracked
  <2> QED
    BY <2>1 DEF TypeInv, TypeOK, WaitOwner, JobAssumption
<1> HIDE DEF new
<1>1. TypeOK'
  BY <1>0, <1>a, <1>b DEF TypeInv, TypeOK, marks, deliveries, transcript, history
<1>2. Shape'
  <2>1. \A r \in Runs : \/ status'[r] = status[r]
                        \/ status'[r] = "cancelled" /\ status[r] \in Active
    BY <1>0, <1>a
  <2>2. UNCHANGED <<row, alive, name, hub>> /\ UNCHANGED <<manager, session, inbox>>
    BY <1>a DEF transcript
  <2>3. shell' \in {shell, ShellIdle}
    BY <1>a
  <2> QED
    BY <2>1, <2>2, <2>3, CancelShape
<1> QED
  BY <1>1, <1>2 DEF TypeInv

LEMMA WaitOwnerRoundTyped ==
  ASSUME TypeInv, JobAssumption, WaitOwnerRound
  PROVE  TypeInv'
<1>0. waiter' \in [pc : {"idle", "waiting", "settled"}, awaited : SUBSET Ids,
                   pending : SUBSET Runs, reap : BOOLEAN]
  <2> DEFINE ids == Unawaited(waiter.awaited, waiter.reap)
  <2>1. ids \subseteq Ids /\ {row[i] : i \in ids} \subseteq Runs
    BY DEF TypeInv, TypeOK, Unawaited, Tracked
  <2>2. waiter' = [waiter EXCEPT !.pc = IF ids = {} THEN "settled" ELSE "waiting",
                                 !.awaited = @ \cup ids, !.pending = {row[i] : i \in ids}]
    BY DEF WaitOwnerRound
  <2> HIDE DEF ids
  <2> QED
    BY <2>1, <2>2 DEF TypeInv, TypeOK
<1>1. TypeOK'
  BY <1>0 DEF TypeInv, TypeOK, WaitOwnerRound, table, marks, deliveries, transcript, history
<1>2. Shape'
  BY DEF TypeInv, Shape, WaitOwnerRound, table, marks, deliveries, transcript, history
<1> QED
  BY <1>1, <1>2 DEF TypeInv

LEMMA NewSessionTyped ==
  ASSUME TypeInv, JobAssumption, newSession
  PROVE  TypeInv'
<1> DEFINE new == Cancelled(ActiveIds)
<1>0. /\ new \in [Runs -> Active \cup {"free", "finished", "cancelled"}]
      /\ \A r \in Runs : new[r] = status[r] \/ (new[r] = "cancelled" /\ status[r] \in Active)
  BY CancelledFacts
<1>b. row' = Evicted(FinishedIds) /\ ActiveIds \subseteq Ids
  BY DEF newSession, CancelOwnAsyncJobs, ActiveIds, Tracked
<1>c. row' \in [Ids -> Runs \cup {NoRun}] /\ \A i \in Ids : row'[i] \in {NoRun, row[i]}
  BY <1>b DEF TypeInv, TypeOK, Evicted
<1>d. queue' \in Seq(Delivery)
  BY WithoutTyped DEF TypeInv, TypeOK, newSession, CancelOwnAsyncJobs
<1>a. /\ status' = new /\ inbox' = {} /\ suppressed' \subseteq suppressed
      /\ watched' \subseteq watched /\ epoch' = epoch + 1 /\ epoch < MaxEpoch
      /\ timers' \subseteq timers \cup ActiveIds
      /\ UNCHANGED <<alive, name, born, flight, manager, session, hub, shell, waiter, waits,
                     history>>
  BY DEF newSession, CancelOwnAsyncJobs
<1> HIDE DEF new
<1>1. TypeOK'
  <2>1. epoch' \in Epochs
    BY <1>a DEF TypeInv, TypeOK, Epochs, JobAssumption
  <2> QED
    BY <1>0, <1>a, <1>b, <1>c, <1>d, <2>1 DEF TypeInv, TypeOK, history
<1>2. Shape'
  BY <1>0, <1>a, <1>c, FS_EmptySet DEF TypeInv, TypeOK, Shape, Active
<1> QED
  BY <1>1, <1>2 DEF TypeInv

LEMMA BeginDisposeTyped ==
  ASSUME TypeInv, JobAssumption, beginDispose
  PROVE  TypeInv'
<1>1. TypeOK'
  BY DEF TypeInv, TypeOK, beginDispose, table, marks, deliveries, transcript, history
<1>2. Shape'
  BY FS_EmptySet DEF TypeInv, Shape, beginDispose, table
<1> QED
  BY <1>1, <1>2 DEF TypeInv

LEMMA DisposeOwnedAsyncJobsTyped ==
  ASSUME TypeInv, JobAssumption, disposeOwnedAsyncJobs
  PROVE  TypeInv'
<1> DEFINE new == Cancelled(ActiveIds)
<1>0. /\ new \in [Runs -> Active \cup {"free", "finished", "cancelled"}]
      /\ \A r \in Runs : new[r] = status[r] \/ (new[r] = "cancelled" /\ status[r] \in Active)
  BY CancelledFacts
<1>b. row' = Evicted(FinishedIds) /\ ActiveIds \subseteq Ids
  BY DEF disposeOwnedAsyncJobs, CancelOwnAsyncJobs, ActiveIds, Tracked
<1>c. row' \in [Ids -> Runs \cup {NoRun}] /\ \A i \in Ids : row'[i] \in {NoRun, row[i]}
  BY <1>b DEF TypeInv, TypeOK, Evicted
<1>d. queue' \in Seq(Delivery)
  BY WithoutTyped DEF TypeInv, TypeOK, disposeOwnedAsyncJobs, CancelOwnAsyncJobs
<1>a. /\ status' = new /\ inbox' = {} /\ suppressed' \subseteq suppressed
      /\ watched' \subseteq watched /\ timers' = {}
      /\ session' = "closed" /\ manager' = "closing"
      /\ UNCHANGED <<alive, name, born, flight, epoch, hub, shell, waiter, waits, history>>
  BY DEF disposeOwnedAsyncJobs, CancelOwnAsyncJobs
<1> HIDE DEF new
<1>1. TypeOK'
  BY <1>0, <1>a, <1>b, <1>c, <1>d DEF TypeInv, TypeOK, history
<1>2. Shape'
  <2>0. /\ alive' = alive /\ name' = name /\ alive \subseteq Runs
        /\ \A r \in Runs : status'[r] = status[r]
                            \/ (status'[r] = "cancelled" /\ status[r] \in Active)
    BY <1>0, <1>a DEF TypeInv, TypeOK
  <2>a. /\ \A r \in Runs : status'[r] # "free" => name'[r] \in Ids
        /\ \A r \in Runs : status'[r] \in Active => r \in alive'
    BY <2>0 DEF TypeInv, Shape, Active
  <2>b. \A i \in Ids : row'[i] # NoRun => status'[row'[i]] # "free" /\ name'[row'[i]] = i
    BY <2>0, <1>c DEF TypeInv, TypeOK, Shape, Active
  <2>c. \A r \in alive' : status'[r] \in Active \cup {"cancelled"}
    BY <2>0 DEF TypeInv, Shape, Active
  <2>1. /\ \A r \in Runs : status'[r] # "free" => name'[r] \in Ids
        /\ \A i \in Ids : row'[i] # NoRun => status'[row'[i]] # "free" /\ name'[row'[i]] = i
        /\ \A r \in Runs : status'[r] \in Active => r \in alive'
        /\ \A r \in alive' : status'[r] \in Active \cup {"cancelled"}
    BY <2>a, <2>b, <2>c
  <2>2. /\ \A r \in hub'.runs : status'[r] # "free"
        /\ shell'.pc # "idle" => shell'.run \in Runs /\ status'[shell'.run] # "free"
    BY <1>0, <1>a DEF TypeInv, TypeOK, Shape, Active
  <2> QED
    BY <1>a, <2>1, <2>2, FS_EmptySet DEF TypeInv, Shape
<1> QED
  BY <1>1, <1>2 DEF TypeInv

LEMMA DisposedTyped ==
  ASSUME TypeInv, JobAssumption, disposed
  PROVE  TypeInv'
<1>1. TypeOK'
  BY DEF TypeInv, TypeOK, Shape, disposed, table, marks, deliveries, transcript, history
<1>2. Shape'
  BY DEF TypeInv, TypeOK, Shape, disposed, table, marks, deliveries, transcript, history,
     Active
<1> QED
  BY <1>1, <1>2 DEF TypeInv

LEMMA RegisterKeeps ==
  ASSUME TypeInv, JobAssumption, NEW r \in Runs, NEW i \in Ids, NEW as \in Active,
         Register(r, i, as), suppressed' \subseteq Ids, queue' \in Seq(Delivery),
         \/ UNCHANGED shell
         \/ shell' = [pc |-> "waiting", run |-> r]
  PROVE  TypeInv'
<1>0. UNCHANGED <<timers, watched, flight, manager, transcript, hub, waiter, waits, history>>
  BY DEF Register
<1>a. /\ row' \in [Ids -> Runs \cup {NoRun}]
      /\ status' \in [Runs -> Active \cup {"free", "finished", "cancelled"}]
      /\ alive' \subseteq Runs /\ name' \in [Runs -> Ids \cup {NoRun}]
      /\ born' \in [Runs -> Epochs]
  BY RegisterTyped
<1>b. /\ \A s \in Runs : status'[s] # "free" => name'[s] \in Ids
      /\ \A k \in Ids : row'[k] # NoRun => status'[row'[k]] # "free" /\ name'[row'[k]] = k
      /\ \A s \in Runs : status'[s] \in Active => s \in alive'
      /\ \A s \in alive' : status'[s] \in Active \cup {"cancelled"}
  BY RegisterTyped
<1>c. /\ \A s \in Runs : status[s] # "free" => status'[s] # "free"
      /\ status'[r] # "free"
  BY RegisterTyped
<1>1. TypeOK'
  BY <1>0, <1>a DEF TypeInv, TypeOK, transcript, history
<1>2. Shape'
  <2>1. \A s \in hub'.runs : status'[s] # "free"
    BY <1>0, <1>c DEF TypeInv, TypeOK, Shape
  <2>2. shell'.pc # "idle" => shell'.run \in Runs /\ status'[shell'.run] # "free"
    BY <1>c DEF TypeInv, Shape
  <2> QED
    BY <1>0, <1>b, <2>1, <2>2 DEF TypeInv, Shape, transcript
<1> QED
  BY <1>1, <1>2 DEF TypeInv

LEMMA registerTyped ==
  ASSUME TypeInv, JobAssumption, NEW r \in Runs, NEW i \in Ids, register(r, i)
  PROVE  TypeInv'
BY RegisterKeeps DEF register, TypeInv, TypeOK

LEMMA StartForegroundTyped ==
  ASSUME TypeInv, JobAssumption, NEW r \in Runs, NEW i \in Ids, StartForeground(r, i)
  PROVE  TypeInv'
BY RegisterKeeps, WithoutTyped DEF StartForeground, TypeInv, TypeOK, Active

LEMMA SettleTyped ==
  ASSUME TypeInv, JobAssumption, NEW r \in Runs, Settle(r)
  PROVE  TypeInv'
<1>0. /\ r \in alive /\ alive' = alive \ {r} /\ name[r] \in Ids
      /\ timers' \in {timers, timers \cup {name[r]}}
      /\ UNCHANGED <<row, name, born, marks, flight, manager, transcript, hub, shell, waiter,
                     waits, history>>
  BY DEF Settle, scheduleEviction, TypeInv, Shape, Active
<1>1. CASE status[r] = "cancelled"
  <2>1. UNCHANGED <<status, queue>>
    BY <1>1 DEF Settle
  <2>2. TypeOK'
    BY <1>0, <2>1 DEF TypeInv, TypeOK, marks, transcript, history
  <2>3. Shape'
    BY <1>0, <1>1, <2>1 DEF TypeInv, TypeOK, Shape, transcript, Active
  <2> QED
    BY <2>2, <2>3 DEF TypeInv
<1>2. CASE status[r] # "cancelled"
  <2>1. status' = [status EXCEPT ![r] = "finished"]
    BY <1>2 DEF Settle
  <2>2. queue' \in Seq(Delivery)
    <3>1. [run |-> r, id |-> name[r], owned |-> row[name[r]] # NoRun] \in Delivery
      BY <1>0 DEF Delivery
    <3>2. Append(queue, [run |-> r, id |-> name[r], owned |-> row[name[r]] # NoRun])
            \in Seq(Delivery)
      BY <3>1, AppendProperties DEF TypeInv, TypeOK
    <3> QED
      BY <1>2, <3>2 DEF Settle, Enqueue, TypeInv, TypeOK
  <2>3. TypeOK'
    BY <1>0, <2>1, <2>2 DEF TypeInv, TypeOK, marks, transcript, history
  <2>4. Shape'
    BY <1>0, <1>2, <2>1 DEF TypeInv, TypeOK, Shape, transcript, Active
  <2> QED
    BY <2>3, <2>4 DEF TypeInv
<1> QED
  BY <1>1, <1>2

LEMMA StepTyped == ASSUME TypeInv, JobAssumption, [Next]_vars PROVE TypeInv'
<1>1. ASSUME NEW r \in Runs, NEW i \in Ids, register(r, i) \/ StartForeground(r, i)
      PROVE  TypeInv'
  BY <1>1, registerTyped, StartForegroundTyped
<1>2. ASSUME NEW r \in Runs, markRunning(r) \/ Settle(r)
      PROVE  TypeInv'
  BY <1>2, MarkRunningTyped, SettleTyped
<1>3. ASSUME NEW i \in Ids, EvictTimer(i) \/ executeCancel(i)
      PROVE  TypeInv'
  BY <1>3, EvictTimerTyped, ExecuteCancelTyped
<1>4. ASSUME RunDeliveryLoop \/ DeliverNextFiltered \/ (\E f \in flight : SinkDone(f)) \/ Inject
      PROVE  TypeInv'
  BY <1>4, RunDeliveryLoopTyped, DeliverNextFilteredTyped, SinkDoneTyped, InjectTyped
<1>5. ASSUME NEW S \in SUBSET Ids, executeJobsSnapshot(S) \/ WaitForJobs(S)
      PROVE  TypeInv'
  BY <1>5, ExecuteJobsSnapshotTyped, WaitForJobsTyped
<1>6. ASSUME WaitRaced \/ WaitMessage \/ WaitUnwatch \/ WaitReport
      PROVE  TypeInv'
  BY <1>6, WaitRacedTyped, WaitMessageTyped, WaitUnwatchTyped, WaitReportTyped
<1>7. ASSUME NEW o \in {"completed", "running", "aborted"}, ForegroundRaced(o)
      PROVE  TypeInv'
  BY <1>7, ForegroundRacedTyped
<1>8. ASSUME ForegroundCompleted \/ ForegroundAborted \/ Backgrounded
      PROVE  TypeInv'
  BY <1>8, ForegroundCompletedTyped, ForegroundAbortedTyped, BackgroundedTyped
<1>9. ASSUME (\E b \in BOOLEAN : WaitOwner(b)) \/ WaitOwnerRound
      PROVE  TypeInv'
  BY <1>9, WaitOwnerTyped, WaitOwnerRoundTyped
<1>10. ASSUME newSession \/ beginDispose \/ disposeOwnedAsyncJobs \/ disposed
       PROVE  TypeInv'
  BY <1>10, NewSessionTyped, BeginDisposeTyped, DisposeOwnedAsyncJobsTyped, DisposedTyped
<1>11. ASSUME UNCHANGED vars PROVE TypeInv'
  BY <1>11 DEF vars, TypeInv, TypeOK, Shape
<1> QED
  BY <1>1, <1>2, <1>3, <1>4, <1>5, <1>6, <1>7, <1>8, <1>9, <1>10, <1>11 DEF Next

\* Every variable of the job manager and of those that use it keeps its type,
\* whatever runs, marks and sessions there are.
THEOREM TypeCorrect == Spec => []TypeOK
<1>1. Init => TypeInv
  BY InitTyped, JobAssumption
<1>2. TypeInv /\ [Next]_vars => TypeInv'
  BY StepTyped, JobAssumption
<1>3. TypeInv => TypeOK
  BY DEF TypeInv
<1> QED
  BY <1>1, <1>2, <1>3, PTL DEF Spec

--------------------------------------------------------------------------------
(* Which jobs are where.                                                   *)

Queued == Members(queue)

\* Disposing the manager stops every job and forgets every result.
Closing ==
  manager # "up" =>
    /\ timers = {}
    /\ \A r \in Runs : status[r] \notin Active
    /\ \A i \in Ids : row[i] # NoRun => status[row[i]] = "cancelled"

\* The row of a job stays while its promise has not settled, only rows of jobs that
\* are over have an eviction timer, and the rows of earlier transcripts are those of
\* cancelled jobs.
Rows ==
  /\ manager # "closed" => \A r \in alive : row[name[r]] = r
  /\ \A i \in timers : row[i] # NoRun /\ status[row[i]] \notin Active
  /\ \A r \in Runs : status[r] \in Active => born[r] = epoch
  /\ \A i \in Ids : row[i] # NoRun => status[row[i]] = "cancelled" \/ born[row[i]] = epoch

\* A result on its way belongs to a finished job of the transcript it was begun
\* for, which still has its row as long as it can arrive.
QueuedOK ==
  \A d \in Queued : /\ status[d.run] = "finished" /\ name[d.run] = d.id
                    /\ row[d.id] = d.run /\ d.owned /\ born[d.run] = epoch
FlightOK ==
  \A f \in flight : /\ status[f.run] = "finished" /\ name[f.run] = f.id
                    /\ born[f.run] = f.epoch /\ f.epoch <= epoch
                    /\ f.epoch = epoch /\ manager = "up" => row[f.id] = f.run
InboxOK ==
  \A e \in inbox : /\ status[e.run] = "finished" /\ name[e.run] = e.id
                   /\ born[e.run] = e.epoch /\ e.epoch = epoch
                   /\ SlowStep \/ row[e.id] = e.run

\* It is in one place at a time.
Unique ==
  /\ Distinct(queue)
  /\ \A d \in Queued, f \in flight : d.run # f.run
  /\ \A d \in Queued, e \in inbox : d.run # e.run
  /\ \A f \in flight, e \in inbox : f.run # e.run
  /\ \A f, g \in flight : f.run = g.run => f = g
  /\ \A e, g \in inbox : e.run = g.run => e = g

Out(r) ==
  \/ \E d \in Queued : d.run = r
  \/ \E f \in flight : f.run = r
  \/ \E e \in inbox : e.run = r

\* The job of a foreground call is marked and keeps its row, so it has no delivery.
ShellOK ==
  shell.pc # "idle" =>
    /\ ~Out(shell.run)
    /\ manager = "up" => name[shell.run] \in suppressed /\ row[name[shell.run]] = shell.run

\* What is watched is watched for the jobs of the hub wait in progress.
HubOK ==
  /\ watched # {} => hub.pc \in {"waiting", "raced"}
  /\ \A i \in watched : row[i] \in hub.runs

Places == Closing /\ Rows /\ QueuedOK /\ FlightOK /\ InboxOK /\ Unique /\ ShellOK /\ HubOK

\* The types that the steps below need.
LEMMA Basics ==
  ASSUME TypeInv, JobAssumption
  PROVE  /\ row \in [Ids -> Runs \cup {NoRun}] /\ NoRun \notin Runs
         /\ status \in [Runs -> Active \cup {"free", "finished", "cancelled"}]
         /\ alive \subseteq Runs /\ name \in [Runs -> Ids \cup {NoRun}]
         /\ born \in [Runs -> Epochs] /\ epoch \in Nat
         /\ timers \subseteq Ids /\ suppressed \subseteq Ids /\ watched \subseteq Ids
         /\ queue \in Seq(Delivery) /\ \A d \in Queued : d \in Delivery
         /\ flight \subseteq Held /\ inbox \subseteq Entry /\ hub.runs \subseteq Runs
         /\ told \in [Runs -> Nat]
<1>1. NoRun \notin Runs
  BY DEF JobAssumption, Runs
<1>2. \A d \in Queued : d \in Delivery
  BY DEF TypeInv, TypeOK, Queued, Members
<1> QED
  BY <1>1, <1>2 DEF TypeInv, TypeOK, Epochs

\* A step after which nothing new is on its way, and which leaves the table as it
\* is but for jobs that are cancelled or begin to run.
LEMMA FewerPlaces ==
  ASSUME TypeInv, TypeInv', JobAssumption, Places,
         UNCHANGED <<row, alive, name, born, flight, manager, epoch>>,
         \A r \in Runs : \/ status'[r] = status[r]
                         \/ status[r] \in Active /\ status'[r] \in Active \cup {"cancelled"},
         \A i \in timers' : i \in timers \/ (row[i] # NoRun /\ status'[row[i]] \notin Active),
         manager # "up" => timers' = timers,
         Queued' \subseteq Queued, Distinct(queue'), inbox' \subseteq inbox
  PROVE  /\ Closing' /\ Rows' /\ QueuedOK' /\ FlightOK' /\ InboxOK' /\ Unique'
         /\ \A r : Out(r)' => Out(r)
<1>1. /\ row \in [Ids -> Runs \cup {NoRun}] /\ alive \subseteq Runs /\ timers' \subseteq Ids
      /\ \A d \in Queued : d \in Delivery
      /\ flight \subseteq Held /\ inbox \subseteq Entry /\ timers \subseteq Ids
  <2>1. timers' \subseteq Ids
    BY DEF TypeInv, TypeOK
  <2> QED
    BY <2>1, Basics
<1>2. Closing'
  BY <1>1 DEF Places, Closing, Active
<1>3. Rows'
  BY <1>1 DEF Places, Rows, Active
<1>4. QueuedOK'
  <2>1. \A d \in Queued : status[d.run] = "finished" => status'[d.run] = "finished"
    BY <1>1 DEF Delivery, Active
  <2> QED
    BY <2>1 DEF Places, QueuedOK
<1>5. FlightOK'
  <2>1. \A f \in flight : status[f.run] = "finished" => status'[f.run] = "finished"
    BY <1>1 DEF Held, Active
  <2> QED
    BY <2>1 DEF Places, FlightOK
<1>6. InboxOK'
  <2>1. \A e \in inbox : status[e.run] = "finished" => status'[e.run] = "finished"
    BY <1>1 DEF Entry, Active
  <2> QED
    BY <2>1 DEF Places, InboxOK
<1>7. Unique'
  BY DEF Places, Unique
<1>8. \A r : Out(r)' => Out(r)
  BY DEF Out
<1> QED
  BY <1>2, <1>3, <1>4, <1>5, <1>6, <1>7, <1>8

\* The same for a step that leaves the queue alone.
LEMMA SameQueue ==
  ASSUME Places, UNCHANGED queue
  PROVE  Queued' \subseteq Queued /\ Distinct(queue')
BY DEF Places, Unique, Queued

LEMMA QuietPlaces ==
  ASSUME TypeInv, TypeInv', JobAssumption, Places,
         UNCHANGED <<row, status, alive, name, born, timers, queue, flight, manager, epoch>>,
         inbox' \subseteq inbox
  PROVE  /\ Closing' /\ Rows' /\ QueuedOK' /\ FlightOK' /\ InboxOK' /\ Unique'
         /\ \A r : Out(r)' => Out(r)
<1>1. Queued' \subseteq Queued /\ Distinct(queue')
  BY SameQueue
<1> QED
  BY <1>1, FewerPlaces

LEMMA WaitForJobsPlaces ==
  ASSUME TypeInv, TypeInv', JobAssumption, Places, NEW S \in SUBSET Ids,
         WaitForJobs(S)
  PROVE  Places'
<1>1. /\ Closing' /\ Rows' /\ QueuedOK' /\ FlightOK' /\ InboxOK' /\ Unique'
      /\ \A r : Out(r)' => Out(r)
  <2>1. /\ UNCHANGED <<row, status, alive, name, born, timers, queue, flight, manager, epoch>>
        /\ inbox' \subseteq inbox
    BY DEF WaitForJobs, table, marks, deliveries, transcript, history
  <2> QED
    BY <2>1, QuietPlaces
<1>2. ShellOK'
  BY <1>1 DEF Places, ShellOK, WaitForJobs, ActiveIds, Tracked, table, marks, deliveries,
     transcript, history
<1>3. HubOK'
  BY Basics DEF Places, HubOK, TypeInv, TypeOK, Shape, WaitForJobs, ActiveIds, Tracked, table,
     marks, deliveries, transcript, history
<1> QED
  BY <1>1, <1>2, <1>3 DEF Places

LEMMA WaitRacedPlaces ==
  ASSUME TypeInv, TypeInv', JobAssumption, Places, WaitRaced
  PROVE  Places'
<1>1. /\ Closing' /\ Rows' /\ QueuedOK' /\ FlightOK' /\ InboxOK' /\ Unique'
      /\ \A r : Out(r)' => Out(r)
  <2>1. /\ UNCHANGED <<row, status, alive, name, born, timers, queue, flight, manager, epoch>>
        /\ inbox' \subseteq inbox
    BY DEF WaitRaced, table, marks, deliveries, transcript, history
  <2> QED
    BY <2>1, QuietPlaces
<1>2. ShellOK'
  BY <1>1 DEF Places, ShellOK, WaitRaced, table, marks, deliveries, transcript, history
<1>3. HubOK'
  BY DEF Places, HubOK, WaitRaced, table, marks, deliveries, transcript, history
<1> QED
  BY <1>1, <1>2, <1>3 DEF Places

LEMMA WaitMessagePlaces ==
  ASSUME TypeInv, TypeInv', JobAssumption, Places, WaitMessage
  PROVE  Places'
<1>1. /\ Closing' /\ Rows' /\ QueuedOK' /\ FlightOK' /\ InboxOK' /\ Unique'
      /\ \A r : Out(r)' => Out(r)
  <2>1. /\ UNCHANGED <<row, status, alive, name, born, timers, queue, flight, manager, epoch>>
        /\ inbox' \subseteq inbox
    BY DEF WaitMessage, table, marks, deliveries, transcript, history
  <2> QED
    BY <2>1, QuietPlaces
<1>2. ShellOK'
  BY <1>1 DEF Places, ShellOK, WaitMessage, table, marks, deliveries, transcript, history
<1>3. HubOK'
  BY DEF Places, HubOK, WaitMessage, table, marks, deliveries, transcript, history
<1> QED
  BY <1>1, <1>2, <1>3 DEF Places

LEMMA WaitUnwatchPlaces ==
  ASSUME TypeInv, TypeInv', JobAssumption, Places, WaitUnwatch
  PROVE  Places'
<1>1. /\ Closing' /\ Rows' /\ QueuedOK' /\ FlightOK' /\ InboxOK' /\ Unique'
      /\ \A r : Out(r)' => Out(r)
  <2>1. /\ UNCHANGED <<row, status, alive, name, born, timers, queue, flight, manager, epoch>>
        /\ inbox' \subseteq inbox
    BY DEF WaitUnwatch, table, marks, deliveries, transcript, history
  <2> QED
    BY <2>1, QuietPlaces
<1>2. ShellOK'
  BY <1>1 DEF Places, ShellOK, WaitUnwatch, HubIdle, table, marks, deliveries, transcript,
     history
<1>3. HubOK'
  BY Basics DEF Places, HubOK, TypeInv, TypeOK, Shape, WaitUnwatch, HubIdle, table, marks,
     deliveries, transcript, history
<1> QED
  BY <1>1, <1>2, <1>3 DEF Places

LEMMA ForegroundRacedPlaces ==
  ASSUME TypeInv, TypeInv', JobAssumption, Places, NEW o \in {"completed",
         "running", "aborted"}, ForegroundRaced(o)
  PROVE  Places'
<1>1. /\ Closing' /\ Rows' /\ QueuedOK' /\ FlightOK' /\ InboxOK' /\ Unique'
      /\ \A r : Out(r)' => Out(r)
  <2>1. /\ UNCHANGED <<row, status, alive, name, born, timers, queue, flight, manager, epoch>>
        /\ inbox' \subseteq inbox
    BY DEF ForegroundRaced, table, marks, deliveries, transcript, history
  <2> QED
    BY <2>1, QuietPlaces
<1>2. ShellOK'
  BY <1>1 DEF Places, ShellOK, ForegroundRaced, table, marks, deliveries, transcript, history
<1>3. HubOK'
  BY DEF Places, HubOK, ForegroundRaced, table, marks, deliveries, transcript, history
<1> QED
  BY <1>1, <1>2, <1>3 DEF Places

LEMMA ForegroundCompletedPlaces ==
  ASSUME TypeInv, TypeInv', JobAssumption, Places, ForegroundCompleted
  PROVE  Places'
<1>1. /\ Closing' /\ Rows' /\ QueuedOK' /\ FlightOK' /\ InboxOK' /\ Unique'
      /\ \A r : Out(r)' => Out(r)
  <2>1. /\ UNCHANGED <<row, status, alive, name, born, timers, queue, flight, manager, epoch>>
        /\ inbox' \subseteq inbox
    BY DEF ForegroundCompleted, table, marks, deliveries, transcript, history
  <2> QED
    BY <2>1, QuietPlaces
<1>2. ShellOK'
  BY <1>1 DEF Places, ShellOK, ForegroundCompleted, ShellIdle, table, marks, deliveries,
     transcript, history
<1>3. HubOK'
  BY DEF Places, HubOK, ForegroundCompleted, ShellIdle, table, marks, deliveries, transcript,
     history
<1> QED
  BY <1>1, <1>2, <1>3 DEF Places

LEMMA WaitOwnerRoundPlaces ==
  ASSUME TypeInv, TypeInv', JobAssumption, Places, WaitOwnerRound
  PROVE  Places'
<1>1. /\ Closing' /\ Rows' /\ QueuedOK' /\ FlightOK' /\ InboxOK' /\ Unique'
      /\ \A r : Out(r)' => Out(r)
  <2>1. /\ UNCHANGED <<row, status, alive, name, born, timers, queue, flight, manager, epoch>>
        /\ inbox' \subseteq inbox
    BY DEF WaitOwnerRound, table, marks, deliveries, transcript, history
  <2> QED
    BY <2>1, QuietPlaces
<1>2. ShellOK'
  BY <1>1 DEF Places, ShellOK, WaitOwnerRound, table, marks, deliveries, transcript, history
<1>3. HubOK'
  BY DEF Places, HubOK, WaitOwnerRound, table, marks, deliveries, transcript, history
<1> QED
  BY <1>1, <1>2, <1>3 DEF Places

LEMMA InjectPlaces ==
  ASSUME TypeInv, TypeInv', JobAssumption, Places, Inject
  PROVE  Places'
<1>1. /\ Closing' /\ Rows' /\ QueuedOK' /\ FlightOK' /\ InboxOK' /\ Unique'
      /\ \A r : Out(r)' => Out(r)
  <2>1. /\ UNCHANGED <<row, status, alive, name, born, timers, queue, flight, manager, epoch>>
        /\ inbox' \subseteq inbox
    BY DEF Inject, table, marks, deliveries, transcript, history
  <2> QED
    BY <2>1, QuietPlaces
<1>2. ShellOK'
  BY <1>1 DEF Places, ShellOK, Inject, table, marks, deliveries, transcript, history
<1>3. HubOK'
  BY DEF Places, HubOK, Inject, table, marks, deliveries, transcript, history
<1> QED
  BY <1>1, <1>2, <1>3 DEF Places

LEMMA BeginDisposePlaces ==
  ASSUME TypeInv, TypeInv', JobAssumption, Places, beginDispose
  PROVE  Places'
<1>1. /\ Closing' /\ Rows' /\ QueuedOK' /\ FlightOK' /\ InboxOK' /\ Unique'
      /\ \A r : Out(r)' => Out(r)
  <2>1. /\ UNCHANGED <<row, status, alive, name, born, timers, queue, flight, manager, epoch>>
        /\ inbox' \subseteq inbox
    BY DEF beginDispose, table, marks, deliveries, transcript, history
  <2> QED
    BY <2>1, QuietPlaces
<1>2. ShellOK'
  BY <1>1 DEF Places, ShellOK, beginDispose, table, marks, deliveries, transcript, history
<1>3. HubOK'
  BY DEF Places, HubOK, beginDispose, table, marks, deliveries, transcript, history
<1> QED
  BY <1>1, <1>2, <1>3 DEF Places

LEMMA MarkRunningPlaces ==
  ASSUME TypeInv, TypeInv', JobAssumption, Places, NEW r \in Runs, markRunning(r)
  PROVE  Places'
<1>1. /\ Closing' /\ Rows' /\ QueuedOK' /\ FlightOK' /\ InboxOK' /\ Unique'
      /\ \A s : Out(s)' => Out(s)
  <2>0. /\ UNCHANGED <<row, alive, name, born, flight, manager, epoch, inbox, timers, queue>>
        /\ status[r] = "queued" /\ status' = [status EXCEPT ![r] = "running"]
        /\ status \in [Runs -> Active \cup {"free", "finished", "cancelled"}]
    BY Basics DEF markRunning, deliveries, transcript
  <2>a. "queued" \in Active /\ "running" \in Active \cup {"cancelled"}
    BY DEF Active
  <2>b. \A s \in Runs : status'[s] = IF s = r THEN "running" ELSE status[s]
    BY <2>0
  <2>1. /\ UNCHANGED <<row, alive, name, born, flight, manager, epoch, inbox, timers, queue>>
        /\ \A s \in Runs : \/ status'[s] = status[s]
                           \/ status[s] \in Active /\ status'[s] \in Active \cup {"cancelled"}
    BY <2>0, <2>a, <2>b
  <2>2. Queued' \subseteq Queued /\ Distinct(queue')
    BY <2>1, SameQueue
  <2> QED
    BY <2>1, <2>2, FewerPlaces
<1>2. ShellOK'
  BY <1>1 DEF Places, ShellOK, markRunning, marks, history
<1>3. HubOK'
  BY DEF Places, HubOK, markRunning, marks
<1> QED
  BY <1>1, <1>2, <1>3 DEF Places

LEMMA WithoutQueued ==
  ASSUME TypeInv, Places, NEW S, queue' = Without(queue, S)
  PROVE  Queued' \subseteq Queued /\ Distinct(queue') /\ Queued' = {d \in Queued : d.id \notin S}
<1>1. queue \in Seq(Delivery) /\ Distinct(queue)
  BY DEF TypeInv, TypeOK, Places, Unique
<1>2. /\ Members(queue') = {d \in Members(queue) : d.id \notin S}
      /\ Distinct(queue')
  BY <1>1, WithoutMembers
<1> QED
  BY <1>2 DEF Queued

LEMMA CancelsOnly ==
  ASSUME TypeInv, NEW S \in SUBSET ActiveIds, status' = Cancelled(S)
  PROVE  /\ \A s \in Runs : \/ status'[s] = status[s]
                            \/ status[s] \in Active /\ status'[s] \in Active \cup {"cancelled"}
         /\ \A i \in S : row[i] # NoRun /\ status'[row[i]] = "cancelled"
<1>1. /\ \A r \in Runs :
           \/ Cancelled(S)[r] = status[r]
           \/ Cancelled(S)[r] = "cancelled" /\ status[r] \in Active /\ \E i \in S : row[i] = r
      /\ \A i \in S : Cancelled(S)[row[i]] = "cancelled"
  BY CancelledFacts
<1>2. \A i \in S : row[i] # NoRun
  BY DEF ActiveIds, Tracked
<1>3. "cancelled" \in Active \cup {"cancelled"}
  OBVIOUS
<1> QED
  BY <1>1, <1>2, <1>3

LEMMA ExecuteCancelPlaces ==
  ASSUME TypeInv, TypeInv', JobAssumption, Places, NEW i \in Ids, executeCancel(i)
  PROVE  Places'
<1>0. i \in ActiveIds /\ status' = Cancelled({i}) /\ row[i] \in Runs /\ row[i] # NoRun
  BY Basics DEF executeCancel, ActiveIds, Tracked
<1>a. /\ status'[row[i]] = "cancelled"
      /\ \A s \in Runs : \/ status'[s] = status[s]
                         \/ status[s] \in Active /\ status'[s] \in Active \cup {"cancelled"}
  <2>1. {i} \in SUBSET ActiveIds
    BY <1>0
  <2> QED
    BY <1>0, <2>1, CancelsOnly
<1>1. /\ Closing' /\ Rows' /\ QueuedOK' /\ FlightOK' /\ InboxOK' /\ Unique'
      /\ \A s : Out(s)' => Out(s)
  <2>2. Queued' \subseteq Queued /\ Distinct(queue')
    BY WithoutQueued DEF executeCancel, Acknowledge
  <2>3. /\ \A k \in timers' : k \in timers \/ (row[k] # NoRun /\ status'[row[k]] \notin Active)
        /\ manager # "up" => timers' = timers
    BY <1>0, <1>a DEF executeCancel, scheduleEviction, Active
  <2>4. UNCHANGED <<row, alive, name, born, flight, manager, epoch, inbox>>
    BY DEF executeCancel, transcript
  <2> QED
    BY <1>a, <2>2, <2>3, <2>4, FewerPlaces
<1>2. ShellOK'
  BY <1>1 DEF Places, ShellOK, executeCancel, Acknowledge, history
<1>3. HubOK'
  BY DEF Places, HubOK, executeCancel
<1> QED
  BY <1>1, <1>2, <1>3 DEF Places

LEMMA ExecuteJobsSnapshotPlaces ==
  ASSUME TypeInv, TypeInv', JobAssumption, Places, NEW S \in SUBSET Ids,
         executeJobsSnapshot(S)
  PROVE  Places'
<1>1. /\ Closing' /\ Rows' /\ QueuedOK' /\ FlightOK' /\ InboxOK' /\ Unique'
      /\ \A r : Out(r)' => Out(r)
  <2>1. Queued' \subseteq Queued /\ Distinct(queue')
    BY WithoutQueued DEF executeJobsSnapshot, Report, Acknowledge
  <2>2. UNCHANGED <<row, status, timers, alive, name, born, flight, manager, epoch, inbox>>
    BY DEF executeJobsSnapshot, table, transcript
  <2> QED
    BY <2>1, <2>2, FewerPlaces
<1>2. ShellOK'
  BY <1>1 DEF Places, ShellOK, executeJobsSnapshot, Report, Acknowledge, table
<1>3. HubOK'
  BY DEF Places, HubOK, executeJobsSnapshot, table
<1> QED
  BY <1>1, <1>2, <1>3 DEF Places

LEMMA WaitReportPlaces ==
  ASSUME TypeInv, TypeInv', JobAssumption, Places, WaitReport
  PROVE  Places'
<1>1. /\ Closing' /\ Rows' /\ QueuedOK' /\ FlightOK' /\ InboxOK' /\ Unique'
      /\ \A r : Out(r)' => Out(r)
  <2>1. Queued' \subseteq Queued /\ Distinct(queue')
    BY WithoutQueued DEF WaitReport, Report, Acknowledge
  <2>2. UNCHANGED <<row, status, timers, alive, name, born, flight, manager, epoch, inbox>>
    BY DEF WaitReport, table, transcript
  <2> QED
    BY <2>1, <2>2, FewerPlaces
<1>2. ShellOK'
  BY <1>1 DEF Places, ShellOK, WaitReport, Report, Acknowledge, table
<1>3. HubOK'
  BY DEF Places, HubOK, HubIdle, WaitReport, table
<1> QED
  BY <1>1, <1>2, <1>3 DEF Places

LEMMA ForegroundAbortedPlaces ==
  ASSUME TypeInv, TypeInv', JobAssumption, Places, ForegroundAborted
  PROVE  Places'
<1> DEFINE mine == {name[shell.run]} \cap ActiveIds
<1>0. /\ status' = Cancelled(mine) /\ scheduleEviction(mine) /\ shell' = ShellIdle
      /\ UNCHANGED <<row, alive, name, born, marks, deliveries, manager, transcript, hub, waiter,
                     waits, dropped, restored>>
  BY DEF ForegroundAborted
<1>c. mine \in SUBSET ActiveIds
  OBVIOUS
<1> HIDE DEF mine
<1>a. /\ \A i \in mine : row[i] # NoRun /\ status'[row[i]] = "cancelled"
      /\ \A s \in Runs : \/ status'[s] = status[s]
                         \/ status[s] \in Active /\ status'[s] \in Active \cup {"cancelled"}
  BY <1>0, <1>c, CancelsOnly
<1>1. /\ Closing' /\ Rows' /\ QueuedOK' /\ FlightOK' /\ InboxOK' /\ Unique'
      /\ \A s : Out(s)' => Out(s)
  <2>2. Queued' \subseteq Queued /\ Distinct(queue')
    BY <1>0, SameQueue DEF deliveries
  <2>3. /\ \A k \in timers' : k \in timers \/ (row[k] # NoRun /\ status'[row[k]] \notin Active)
        /\ manager # "up" => timers' = timers
    BY <1>0, <1>a DEF scheduleEviction, Active
  <2>4. UNCHANGED <<row, alive, name, born, flight, manager, epoch, inbox>>
    BY <1>0 DEF transcript, deliveries
  <2> QED
    BY <1>a, <2>2, <2>3, <2>4, FewerPlaces
<1>2. ShellOK'
  BY <1>0 DEF ShellOK, ShellIdle
<1>3. HubOK'
  BY <1>0 DEF Places, HubOK, marks
<1> QED
  BY <1>1, <1>2, <1>3 DEF Places

LEMMA WaitOwnerPlaces ==
  ASSUME TypeInv, TypeInv', JobAssumption, Places, NEW b \in BOOLEAN, WaitOwner(b)
  PROVE  Places'
<1>0. UNCHANGED <<row, alive, name, born, marks, deliveries, manager, transcript, hub, shell,
                  history>>
  BY DEF WaitOwner
<1>a. /\ \A s \in Runs : \/ status'[s] = status[s]
                         \/ status[s] \in Active /\ status'[s] \in Active \cup {"cancelled"}
      /\ \A k \in timers' : k \in timers \/ (row[k] # NoRun /\ status'[row[k]] \notin Active)
      /\ manager # "up" => timers' = timers
  <2>1. CASE b
    <3>1. ActiveIds \in SUBSET ActiveIds /\ status' = Cancelled(ActiveIds)
      BY <2>1 DEF WaitOwner
    <3>2. /\ \A s \in Runs : \/ status'[s] = status[s]
                             \/ status[s] \in Active /\ status'[s] \in Active \cup {"cancelled"}
          /\ \A i \in ActiveIds : row[i] # NoRun /\ status'[row[i]] = "cancelled"
      BY <3>1, CancelsOnly
    <3>3. scheduleEviction(ActiveIds)
      BY <2>1 DEF WaitOwner
    <3> QED
      BY <3>2, <3>3 DEF scheduleEviction, Active
  <2>2. CASE ~b
    BY <2>2 DEF WaitOwner
  <2> QED
    BY <2>1, <2>2
<1>1. /\ Closing' /\ Rows' /\ QueuedOK' /\ FlightOK' /\ InboxOK' /\ Unique'
      /\ \A s : Out(s)' => Out(s)
  <2>2. Queued' \subseteq Queued /\ Distinct(queue')
    BY <1>0, SameQueue DEF deliveries
  <2>4. UNCHANGED <<row, alive, name, born, flight, manager, epoch, inbox>>
    BY <1>0 DEF transcript, deliveries
  <2> QED
    BY <1>a, <2>2, <2>4, FewerPlaces
<1>2. ShellOK'
  BY <1>0, <1>1 DEF Places, ShellOK, marks, history
<1>3. HubOK'
  BY <1>0 DEF Places, HubOK, marks
<1> QED
  BY <1>1, <1>2, <1>3 DEF Places

\* A registration takes a run and an id that nothing stands for.
LEMMA RegisterPlaces ==
  ASSUME TypeInv, TypeInv', JobAssumption, Places,
         NEW r \in Runs, NEW i \in Ids, NEW as \in Active, Register(r, i, as),
         Queued' \subseteq Queued, Distinct(queue')
  PROVE  /\ Closing' /\ Rows' /\ QueuedOK' /\ FlightOK' /\ InboxOK' /\ Unique' /\ HubOK'
         /\ \A s : Out(s)' => Out(s)
<1>1. /\ row' = [row EXCEPT ![i] = r] /\ status' = [status EXCEPT ![r] = as]
      /\ alive' = alive \cup {r} /\ name' = [name EXCEPT ![r] = i]
      /\ born' = [born EXCEPT ![r] = epoch] /\ status[r] = "free" /\ row[i] = NoRun
      /\ manager = "up" /\ manager' = manager /\ epoch' = epoch /\ inbox' = inbox
      /\ timers' = timers /\ watched' = watched /\ flight' = flight /\ hub' = hub
  BY DEF Register, transcript
<1>2. /\ row \in [Ids -> Runs \cup {NoRun}] /\ NoRun \notin Runs
      /\ status \in [Runs -> Active \cup {"free", "finished", "cancelled"}]
      /\ alive \subseteq Runs /\ name \in [Runs -> Ids \cup {NoRun}]
      /\ born \in [Runs -> Epochs]
      /\ timers \subseteq Ids /\ watched \subseteq Ids
      /\ \A d \in Queued : d \in Delivery
      /\ flight \subseteq Held /\ inbox \subseteq Entry /\ hub.runs \subseteq Runs
  BY Basics
<1>3. /\ \A k \in Ids : row'[k] = IF k = i THEN r ELSE row[k]
      /\ \A s \in Runs : status'[s] = IF s = r THEN as ELSE status[s]
      /\ \A s \in Runs : name'[s] = IF s = r THEN i ELSE name[s]
      /\ \A s \in Runs : born'[s] = IF s = r THEN epoch ELSE born[s]
  BY <1>1, <1>2
<1>4. /\ r \notin alive
      /\ \A s \in alive : name[s] \in Ids /\ row[name[s]] = s
      /\ \A k \in Ids : row[k] # NoRun => row[k] \in Runs /\ row[k] # r
      /\ "free" \notin Active
  BY <1>1, <1>2 DEF TypeInv, Shape, Places, Rows, Active
<1>5. Closing'
  BY <1>1 DEF Closing
<1>6. Rows'
  <2>1. ASSUME NEW s \in alive' PROVE row'[name'[s]] = s
    <3>1. CASE s = r
      BY <3>1, <1>3
    <3>2. CASE s # r
      <4>1. s \in alive /\ s \in Runs
        BY <3>2, <1>1, <1>2
      <4>2. name'[s] = name[s] /\ name[s] \in Ids /\ row[name[s]] = s /\ name[s] # i
        BY <4>1, <3>2, <1>1, <1>2, <1>3, <1>4
      <4> QED
        BY <4>2, <1>3
    <3> QED
      BY <3>1, <3>2
  <2>2. ASSUME NEW k \in timers PROVE row'[k] # NoRun /\ status'[row'[k]] \notin Active
    <3>1. k \in Ids /\ row[k] # NoRun /\ status[row[k]] \notin Active
      BY <1>2 DEF Places, Rows
    <3>2. k # i /\ row[k] \in Runs /\ row[k] # r
      BY <3>1, <1>1, <1>4
    <3> QED
      BY <3>1, <3>2, <1>3
  <2>3. \A s \in Runs : status'[s] \in Active => born'[s] = epoch
    BY <1>3 DEF Places, Rows
  <2>4. ASSUME NEW k \in Ids, row'[k] # NoRun
        PROVE  status'[row'[k]] = "cancelled" \/ born'[row'[k]] = epoch
    <3>1. CASE k = i
      BY <3>1, <1>3
    <3>2. CASE k # i
      <4>1. row'[k] = row[k] /\ row[k] \in Runs /\ row[k] # r
        BY <3>2, <2>4, <1>3, <1>4
      <4>2. status[row[k]] = "cancelled" \/ born[row[k]] = epoch
        BY <4>1, <1>2 DEF Places, Rows
      <4> QED
        BY <4>1, <4>2, <1>3
    <3> QED
      BY <3>1, <3>2
  <2> QED
    BY <1>1, <2>1, <2>2, <2>3, <2>4 DEF Rows
<1>7. QueuedOK'
  <2>1. SUFFICES ASSUME NEW d \in Queued
                 PROVE  /\ status'[d.run] = "finished" /\ name'[d.run] = d.id
                        /\ row'[d.id] = d.run /\ d.owned /\ born'[d.run] = epoch
    BY <1>1 DEF QueuedOK
  <2>2. d.run \in Runs /\ d.id \in Ids
    BY <1>2 DEF Delivery
  <2>3. /\ status[d.run] = "finished" /\ name[d.run] = d.id
        /\ row[d.id] = d.run /\ d.owned /\ born[d.run] = epoch
    BY DEF Places, QueuedOK
  <2>4. d.run # r /\ d.id # i
    BY <2>2, <2>3, <1>1, <1>2
  <2> QED
    BY <2>2, <2>3, <2>4, <1>3
<1>8. FlightOK'
  <2>1. SUFFICES ASSUME NEW f \in flight
                 PROVE  /\ status'[f.run] = "finished" /\ name'[f.run] = f.id
                        /\ born'[f.run] = f.epoch /\ f.epoch <= epoch
                        /\ f.epoch = epoch => row'[f.id] = f.run
    BY <1>1 DEF FlightOK
  <2>2. f.run \in Runs /\ f.id \in Ids
    BY <1>2 DEF Held
  <2>3. /\ status[f.run] = "finished" /\ name[f.run] = f.id
        /\ born[f.run] = f.epoch /\ f.epoch <= epoch
        /\ f.epoch = epoch => row[f.id] = f.run
    BY <1>1 DEF Places, FlightOK
  <2>4. f.run # r /\ (f.epoch = epoch => f.id # i)
    BY <2>2, <2>3, <1>1, <1>2
  <2> QED
    BY <2>2, <2>3, <2>4, <1>3
<1>9. InboxOK'
  <2>1. SUFFICES ASSUME NEW e \in inbox
                 PROVE  /\ status'[e.run] = "finished" /\ name'[e.run] = e.id
                        /\ born'[e.run] = e.epoch /\ e.epoch = epoch
                        /\ SlowStep \/ row'[e.id] = e.run
    BY <1>1 DEF InboxOK
  <2>2. e.run \in Runs /\ e.id \in Ids
    BY <1>2 DEF Entry
  <2>3. /\ status[e.run] = "finished" /\ name[e.run] = e.id
        /\ born[e.run] = e.epoch /\ e.epoch = epoch
        /\ SlowStep \/ row[e.id] = e.run
    BY DEF Places, InboxOK
  <2>4. e.run # r /\ (row[e.id] = e.run => e.id # i)
    BY <2>2, <2>3, <1>1, <1>2
  <2> QED
    BY <2>2, <2>3, <2>4, <1>3
<1>10. Unique'
  BY <1>1 DEF Places, Unique
<1>11. HubOK'
  <2>1. ASSUME NEW k \in watched PROVE row'[k] \in hub.runs
    <3>1. k \in Ids /\ row[k] \in hub.runs /\ row[k] \in Runs
      BY <1>2 DEF Places, HubOK
    <3>2. k # i
      BY <3>1, <1>1, <1>2
    <3> QED
      BY <3>1, <3>2, <1>3
  <2> QED
    BY <1>1, <2>1 DEF Places, HubOK
<1>12. \A s : Out(s)' => Out(s)
  BY <1>1 DEF Out
<1> QED
  BY <1>5, <1>6, <1>7, <1>8, <1>9, <1>10, <1>11, <1>12

LEMMA registerPlaces ==
  ASSUME TypeInv, TypeInv', JobAssumption, Places, NEW r \in Runs, NEW i \in Ids, register(r,
         i)
  PROVE  Places'
<1>0. PICK as \in Active : Register(r, i, as)
  BY DEF register
<1>1. /\ Closing' /\ Rows' /\ QueuedOK' /\ FlightOK' /\ InboxOK' /\ Unique' /\ HubOK'
      /\ \A s : Out(s)' => Out(s)
  <2>1. Queued' \subseteq Queued /\ Distinct(queue')
    BY SameQueue DEF register
  <2> QED
    BY <1>0, <2>1, RegisterPlaces
<1>2. ShellOK'
  <2>1. /\ shell' = shell /\ suppressed' = suppressed \ {i} /\ manager' = manager
        /\ row' = [row EXCEPT ![i] = r] /\ name' = [name EXCEPT ![r] = i]
        /\ status[r] = "free" /\ row[i] = NoRun
    BY <1>0 DEF register, Register
  <2>2. SUFFICES ASSUME shell.pc # "idle"
                 PROVE  /\ ~Out(shell.run)'
                        /\ manager = "up" => /\ name'[shell.run] \in suppressed'
                                             /\ row'[name'[shell.run]] = shell.run
    BY <2>1 DEF ShellOK
  <2>3. shell.run \in Runs /\ shell.run # r /\ name[shell.run] \in Ids
    BY <2>1, <2>2 DEF TypeInv, Shape
  <2>4. name'[shell.run] = name[shell.run]
    BY <2>1, <2>3, Basics
  <2>5. ~Out(shell.run) /\ (manager = "up" => /\ name[shell.run] \in suppressed
                                              /\ row[name[shell.run]] = shell.run)
    BY <2>2 DEF Places, ShellOK
  <2>6. ~Out(shell.run)'
    BY <1>1, <2>1, <2>5
  <2>7. ASSUME manager = "up"
        PROVE  name[shell.run] \in suppressed' /\ row'[name[shell.run]] = shell.run
    <3>1. name[shell.run] # i
      BY <2>1, <2>3, <2>5, <2>7, Basics
    <3> QED
      BY <3>1, <2>1, <2>3, <2>5, <2>7, Basics
  <2> QED
    BY <2>4, <2>6, <2>7
<1> QED
  BY <1>1, <1>2 DEF Places

LEMMA StartForegroundPlaces ==
  ASSUME TypeInv, TypeInv', JobAssumption, Places, NEW r \in Runs, NEW i \in Ids,
         StartForeground(r, i)
  PROVE  Places'
<1>0. /\ Register(r, i, "running") /\ "running" \in Active
      /\ queue' = Without(queue, {i} \cup suppressed \cup watched)
      /\ shell' = [pc |-> "waiting", run |-> r] /\ suppressed' = suppressed \cup {i}
  BY DEF StartForeground, Active
<1>1. /\ Closing' /\ Rows' /\ QueuedOK' /\ FlightOK' /\ InboxOK' /\ Unique' /\ HubOK'
      /\ \A s : Out(s)' => Out(s)
  <2>1. Queued' \subseteq Queued /\ Distinct(queue')
    BY <1>0, WithoutQueued
  <2> QED
    BY <1>0, <2>1, RegisterPlaces
<1>2. ShellOK'
  <2>1. /\ row' = [row EXCEPT ![i] = r] /\ name' = [name EXCEPT ![r] = i]
        /\ status[r] = "free"
    BY <1>0 DEF Register
  <2>2. row'[i] = r /\ name'[r] = i
    BY <2>1, Basics
  <2>3. ~Out(r)
    BY <2>1 DEF Out, Places, QueuedOK, FlightOK, InboxOK
  <2>4. ~Out(r)'
    BY <2>3, <1>1
  <2>5. shell'.run = r /\ i \in suppressed'
    BY <1>0
  <2> QED
    BY <2>2, <2>4, <2>5 DEF ShellOK
<1> QED
  BY <1>1, <1>2 DEF Places

LEMMA SettlePlaces ==
  ASSUME TypeInv, TypeInv', JobAssumption, Places, NEW r \in Runs, Settle(r)
  PROVE  Places'
<1> DEFINE d == [run |-> r, id |-> name[r], owned |-> row[name[r]] # NoRun]
<1>1. /\ r \in alive /\ alive' = alive \ {r} /\ name[r] \in Ids
      /\ timers' \in {timers, timers \cup {name[r]}} /\ (manager # "up" => timers' = timers)
      /\ row' = row /\ name' = name /\ born' = born /\ suppressed' = suppressed
      /\ watched' = watched /\ flight' = flight /\ manager' = manager /\ inbox' = inbox
      /\ epoch' = epoch /\ hub' = hub /\ shell' = shell
  BY DEF Settle, scheduleEviction, TypeInv, Shape, Active, marks, transcript
<1>2. /\ row \in [Ids -> Runs \cup {NoRun}] /\ NoRun \notin Runs
      /\ status \in [Runs -> Active \cup {"free", "finished", "cancelled"}]
      /\ alive \subseteq Runs /\ timers \subseteq Ids
      /\ queue \in Seq(Delivery) /\ \A e \in Queued : e \in Delivery
      /\ flight \subseteq Held /\ inbox \subseteq Entry
  BY Basics
<1>3. /\ \A s \in Runs : status'[s] = IF s = r /\ status[r] # "cancelled" THEN "finished"
                                      ELSE status[s]
      /\ status[r] # "cancelled" => status[r] \in Active /\ manager = "up"
      /\ "finished" \notin Active /\ "cancelled" \notin Active
  <2>1. status[r] # "cancelled" => status' = [status EXCEPT ![r] = "finished"]
    BY DEF Settle
  <2>2. status[r] = "cancelled" => status' = status
    BY DEF Settle
  <2>3. status[r] # "cancelled" => status[r] \in Active /\ manager = "up"
    BY <1>1 DEF TypeInv, Shape, Places, Closing
  <2> QED
    BY <1>2, <2>1, <2>2, <2>3 DEF Active
<1>4. manager # "closed" => row[name[r]] = r
  BY <1>1 DEF Places, Rows
<1>5. \A s \in Runs : status[s] = "finished" => status'[s] = "finished" /\ s # r
  BY <1>1, <1>3 DEF TypeInv, Shape, Active
<1>6. /\ Distinct(queue')
      /\ Queued' \subseteq Queued \cup {d}
      /\ Queued' # Queued => status[r] \in Active /\ manager = "up" /\ name[r] \notin suppressed
  <2>1. CASE queue' = queue
    BY <2>1 DEF Places, Unique, Queued
  <2>2. CASE queue' # queue
    <3>1. /\ queue' = Append(queue, d) /\ status[r] # "cancelled"
          /\ name[r] \notin suppressed
      BY <2>2 DEF Settle, Enqueue
    <3>2. d \in Delivery
      BY <1>1 DEF Delivery
    <3>3. \A e \in Queued : e.run # d.run
      BY <1>2, <1>5 DEF Places, QueuedOK, Delivery
    <3>4. Members(queue') = Members(queue) \cup {d} /\ Distinct(queue')
      <4>1. \A e \in Members(queue) : e.run # d.run
        BY <3>3 DEF Queued
      <4>2. queue \in Seq(Delivery) /\ Distinct(queue)
        BY <1>2 DEF Places, Unique
      <4> HIDE DEF d
      <4> QED
        BY <3>1, <3>2, <4>1, <4>2, AppendMembers
    <3> QED
      BY <3>1, <3>4, <1>3 DEF Queued
  <2> QED
    BY <2>1, <2>2
<1>7. d.run = r /\ d.id = name[r] /\ (row[name[r]] = r => d.owned)
  BY <1>2
<1> HIDE DEF d
<1>8. Closing'
  BY <1>1, <1>2, <1>3 DEF Places, Closing
<1>9. Rows'
  <2>1. \A s \in alive' : manager # "closed" => row[name[s]] = s
    BY <1>1 DEF Places, Rows
  <2>2. ASSUME NEW k \in timers' PROVE row[k] # NoRun /\ status'[row[k]] \notin Active
    <3>1. CASE k \in timers
      BY <3>1, <1>2, <1>3 DEF Places, Rows
    <3>2. CASE k = name[r] /\ manager = "up"
      BY <3>2, <1>2, <1>3, <1>4
    <3> QED
      BY <3>1, <3>2, <2>2, <1>1
  <2>3. \A s \in Runs : status'[s] \in Active => born[s] = epoch
    BY <1>3 DEF Places, Rows
  <2>4. \A k \in Ids : row[k] # NoRun => status'[row[k]] = "cancelled" \/ born[row[k]] = epoch
    BY <1>2, <1>3 DEF Places, Rows
  <2> QED
    BY <1>1, <2>1, <2>2, <2>3, <2>4 DEF Rows
<1>10. QueuedOK'
  <2>1. SUFFICES ASSUME NEW e \in Queued'
                 PROVE  /\ status'[e.run] = "finished" /\ name[e.run] = e.id
                        /\ row[e.id] = e.run /\ e.owned /\ born[e.run] = epoch
    BY <1>1 DEF QueuedOK
  <2>2. CASE e \in Queued
    BY <2>2, <1>2, <1>5 DEF Places, QueuedOK, Delivery
  <2>3. CASE e \notin Queued
    <3>1. e = d /\ status[r] \in Active /\ manager = "up"
      BY <2>1, <2>3, <1>6
    <3>2. status'[r] = "finished" /\ row[name[r]] = r /\ born[r] = epoch
      BY <3>1, <1>3, <1>4 DEF Places, Rows
    <3> QED
      BY <3>1, <3>2, <1>7
  <2> QED
    BY <2>2, <2>3
<1>11. FlightOK'
  BY <1>1, <1>2, <1>5 DEF Places, FlightOK, Held
<1>12. InboxOK'
  BY <1>1, <1>2, <1>5 DEF Places, InboxOK, Entry
<1>13. Unique'
  <2>1. ASSUME NEW e \in Queued', e.run = r
        PROVE  (\A f \in flight : f.run # e.run) /\ (\A f \in inbox : f.run # e.run)
    BY <2>1, <1>2, <1>5 DEF Places, FlightOK, InboxOK, Held, Entry
  <2>2. ASSUME NEW e \in Queued', e.run # r
        PROVE  (\A f \in flight : f.run # e.run) /\ (\A f \in inbox : f.run # e.run)
    <3>1. e \in Queued
      BY <2>2, <1>6, <1>7
    <3> QED
      BY <3>1 DEF Places, Unique
  <2> QED
    BY <1>1, <1>6, <2>1, <2>2 DEF Places, Unique
<1>14. ShellOK'
  <2>1. SUFFICES ASSUME shell.pc # "idle"
                 PROVE  ~Out(shell.run)'
    BY <1>1 DEF Places, ShellOK
  <2>2. ~Out(shell.run) /\ (manager = "up" => name[shell.run] \in suppressed)
    BY <2>1 DEF Places, ShellOK
  <2>3. \A e \in Queued' : e.run # shell.run
    BY <2>2, <1>6, <1>7 DEF Out
  <2> QED
    BY <2>2, <2>3, <1>1 DEF Out
<1>15. HubOK'
  BY <1>1 DEF Places, HubOK
<1> QED
  BY <1>8, <1>9, <1>10, <1>11, <1>12, <1>13, <1>14, <1>15 DEF Places

LEMMA EvictTimerPlaces ==
  ASSUME TypeInv, TypeInv', JobAssumption, ~SlowExit, Places, NEW i \in Ids, EvictTimer(i)
  PROVE  Places'
<1>1. /\ timers' = timers \ {i} /\ suppressed' = suppressed \ {i} /\ watched' = watched \ {i}
      /\ row' = Evicted({i}) /\ status' = status /\ alive' = alive /\ name' = name
      /\ born' = born /\ queue' = queue /\ flight' = flight /\ inbox' = inbox
      /\ manager' = manager /\ epoch' = epoch /\ hub' = hub /\ shell' = shell
      /\ i \in timers
  BY DEF EvictTimer, deliveries, transcript
<1>2. /\ row \in [Ids -> Runs \cup {NoRun}] /\ NoRun \notin Runs /\ alive \subseteq Runs
      /\ timers \subseteq Ids /\ watched \subseteq Ids
      /\ \A d \in Queued : d \in Delivery
      /\ flight \subseteq Held /\ inbox \subseteq Entry
  BY Basics
<1>3. \A k \in Ids : row'[k] = IF k = i THEN NoRun ELSE row[k]
  BY <1>1 DEF Evicted
<1>4. row[i] # NoRun /\ status[row[i]] \notin Active
  BY <1>1 DEF Places, Rows
<1>5. row[i] \notin alive
  BY <1>4 DEF EvictTimer, TypeInv, Shape
<1>6. /\ i \notin watched /\ (shell.pc # "idle" => name[shell.run] # i)
      /\ \A d \in Queued : d.id # i
      /\ \A f \in flight : f.id # i
      /\ SlowStep \/ \A e \in inbox : e.id # i
  BY <1>5 DEF EvictTimer, InCall, Queued, Members
<1>7. Closing'
  BY <1>1, <1>3 DEF Places, Closing
<1>8. Rows'
  <2>1. \A s \in alive : manager # "closed" => name[s] \in Ids /\ row[name[s]] = s /\ name[s] # i
    BY <1>2, <1>5 DEF Places, Rows, TypeInv, Shape, Active
  <2> QED
    BY <1>1, <1>2, <1>3, <2>1 DEF Places, Rows
<1>9. QueuedOK'
  <2>1. \A d \in Queued : d.id \in Ids
    BY <1>2 DEF Delivery
  <2> QED
    BY <1>1, <1>3, <1>6, <2>1 DEF Places, QueuedOK, Queued
<1>10. FlightOK'
  <2>1. \A f \in flight : f.id \in Ids
    BY <1>2 DEF Held
  <2> QED
    BY <1>1, <1>3, <1>6, <2>1 DEF Places, FlightOK
<1>11. InboxOK'
  <2>1. \A e \in inbox : e.id \in Ids
    BY <1>2 DEF Entry
  <2> QED
    BY <1>1, <1>3, <1>6, <2>1 DEF Places, InboxOK
<1>12. Unique'
  BY <1>1 DEF Places, Unique, Queued
<1>13. ShellOK'
  <2>1. shell.pc # "idle" => name[shell.run] \in Ids
    BY DEF TypeInv, Shape
  <2> QED
    BY <1>1, <1>3, <1>6, <2>1 DEF Places, ShellOK, Out, Queued
<1>14. HubOK'
  BY <1>1, <1>2, <1>3 DEF Places, HubOK
<1> QED
  BY <1>7, <1>8, <1>9, <1>10, <1>11, <1>12, <1>13, <1>14 DEF Places

\* A delivery that leaves the queue is dropped or goes to the sink.
LEMMA DeliverPlaces ==
  ASSUME TypeInv, TypeInv', JobAssumption, Places, NEW d \in Queued,
         Queued' \subseteq Queued \ {d}, Distinct(queue'),
         NEW via, \/ UNCHANGED flight
                  \/ Deliver(d, via),
         UNCHANGED <<table, marks, manager, transcript, hub, shell>>
  PROVE  Places'
<1> DEFINE f == [run |-> d.run, id |-> d.id, via |-> via, epoch |-> epoch]
<1>1. /\ row' = row /\ status' = status /\ alive' = alive /\ name' = name /\ born' = born
      /\ timers' = timers /\ suppressed' = suppressed /\ watched' = watched
      /\ manager' = manager /\ session' = session /\ epoch' = epoch /\ inbox' = inbox
      /\ hub' = hub /\ shell' = shell
  BY DEF table, marks, transcript
<1>2. flight' \subseteq flight \cup {f}
  BY DEF Deliver
<1>3. /\ f.run = d.run /\ f.id = d.id /\ f.epoch = epoch
      /\ d \in Delivery /\ epoch \in Nat
  BY Basics
<1> HIDE DEF f
<1>4. /\ status[d.run] = "finished" /\ name[d.run] = d.id
      /\ row[d.id] = d.run /\ d.owned /\ born[d.run] = epoch
  BY DEF Places, QueuedOK
<1>5. Closing' /\ Rows' /\ InboxOK'
  BY <1>1 DEF Places, Closing, Rows, InboxOK
<1>6. QueuedOK'
  BY <1>1 DEF Places, QueuedOK
<1>7. FlightOK'
  BY <1>1, <1>2, <1>3, <1>4 DEF Places, FlightOK
<1>8. \A e \in Queued : e.run = d.run => e = d
  BY DEF Places, Unique, Distinct, Queued, Members
<1>9. Unique'
  <2>1. ASSUME NEW e \in Queued' PROVE e \in Queued /\ e.run # d.run
    BY <1>8
  <2>2. \A e \in Queued', g \in flight' : e.run # g.run
    BY <2>1, <1>2, <1>3 DEF Places, Unique
  <2>3. \A e \in Queued', g \in inbox' : e.run # g.run
    BY <2>1, <1>1 DEF Places, Unique
  <2>4. \A g \in flight', e \in inbox' : g.run # e.run
    BY <1>1, <1>2, <1>3 DEF Places, Unique
  <2>5. \A g, h \in flight' : g.run = h.run => g = h
    BY <1>2, <1>3 DEF Places, Unique
  <2> QED
    BY <1>1, <2>2, <2>3, <2>4, <2>5 DEF Places, Unique
<1>10. \A r : Out(r)' => Out(r)
  BY <1>1, <1>2, <1>3 DEF Out
<1>11. ShellOK' /\ HubOK'
  BY <1>1, <1>10 DEF Places, ShellOK, HubOK
<1> QED
  BY <1>5, <1>6, <1>7, <1>9, <1>11 DEF Places

LEMMA RunDeliveryLoopPlaces ==
  ASSUME TypeInv, TypeInv', JobAssumption, Places, RunDeliveryLoop
  PROVE  Places'
<1>1. queue \in Seq(Delivery) /\ Distinct(queue) /\ queue # <<>> /\ queue' = Tail(queue)
  BY Basics DEF Places, Unique, RunDeliveryLoop
<1>2. /\ Head(queue) \in Queued /\ Queued' \subseteq Queued \ {Head(queue)}
      /\ Distinct(queue')
  BY <1>1, TailMembers DEF Queued
<1>3. UNCHANGED flight \/ Deliver(Head(queue), "loop")
  BY DEF RunDeliveryLoop
<1>4. UNCHANGED <<table, marks, manager, transcript, hub, shell>>
  BY DEF RunDeliveryLoop
<1> QED
  BY <1>2, <1>3, <1>4, DeliverPlaces

LEMMA DeliverNextFilteredPlaces ==
  ASSUME TypeInv, TypeInv', JobAssumption, Places, DeliverNextFiltered
  PROVE  Places'
<1>1. PICK k \in DOMAIN queue : queue' = RemoveAt(queue, k) /\ Deliver(queue[k], "drain")
  BY DEF DeliverNextFiltered
<1>2. queue \in Seq(Delivery) /\ Distinct(queue)
  BY Basics DEF Places, Unique
<1>a. /\ Members(RemoveAt(queue, k)) = Members(queue) \ {queue[k]}
      /\ Distinct(RemoveAt(queue, k))
  BY <1>2, RemoveMembers
<1>b. queue[k] \in Queued
  BY DEF Queued, Members
<1>3. /\ queue[k] \in Queued /\ Queued' \subseteq Queued \ {queue[k]}
      /\ Distinct(queue')
  BY <1>1, <1>a, <1>b DEF Queued
<1>4. UNCHANGED <<table, marks, manager, transcript, hub, shell>>
  BY DEF DeliverNextFiltered
<1> QED
  BY <1>1, <1>3, <1>4, DeliverPlaces

LEMMA SinkDonePlaces ==
  ASSUME TypeInv, TypeInv', JobAssumption, Places, NEW f \in flight, SinkDone(f)
  PROVE  Places'
<1> DEFINE e == [run |-> f.run, id |-> f.id, epoch |-> f.epoch]
<1>1. /\ row' = row /\ status' = status /\ alive' = alive /\ name' = name /\ born' = born
      /\ timers' = timers /\ suppressed' = suppressed /\ watched' = watched /\ queue' = queue
      /\ manager' = manager /\ session' = session /\ epoch' = epoch
      /\ hub' = hub /\ shell' = shell /\ flight' = flight \ {f}
      /\ inbox' \in {inbox, inbox \cup {e}}
      /\ inbox' # inbox => session = "live" /\ f.epoch = epoch
  BY DEF SinkDone, table, marks
<1>2. e.run = f.run /\ e.id = f.id /\ e.epoch = f.epoch
  OBVIOUS
<1> HIDE DEF e
<1>3. /\ status[f.run] = "finished" /\ name[f.run] = f.id /\ born[f.run] = f.epoch
      /\ inbox' # inbox => row[f.id] = f.run
  BY <1>1 DEF Places, FlightOK, TypeInv, Shape
<1>4. Closing' /\ Rows'
  BY <1>1 DEF Places, Closing, Rows
<1>5. QueuedOK' /\ FlightOK'
  BY <1>1 DEF Places, QueuedOK, FlightOK, Queued
<1>6. InboxOK'
  BY <1>1, <1>2, <1>3 DEF Places, InboxOK
<1>7. Unique'
  <2>1. \A d \in Queued', g \in inbox' : d.run # g.run
    BY <1>1, <1>2 DEF Places, Unique, Queued
  <2>2. \A g \in flight', h \in inbox' : g.run # h.run
    BY <1>1, <1>2 DEF Places, Unique
  <2>3. \A g, h \in inbox' : g.run = h.run => g = h
    BY <1>1, <1>2 DEF Places, Unique
  <2> QED
    BY <1>1, <2>1, <2>2, <2>3 DEF Places, Unique, Queued
<1>8. \A r : Out(r)' => Out(r)
  BY <1>1, <1>2 DEF Out, Queued
<1>9. ShellOK' /\ HubOK'
  BY <1>1, <1>8 DEF Places, ShellOK, HubOK
<1> QED
  BY <1>4, <1>5, <1>6, <1>7, <1>9 DEF Places

LEMMA BackgroundedPlaces ==
  ASSUME TypeInv, TypeInv', JobAssumption, Places, Backgrounded
  PROVE  Places'
<1> DEFINE i == name[shell.run]
           run == row[i]
           d == [run |-> run, id |-> name[run], owned |-> row[name[run]] # NoRun]
<1>1. /\ row' = row /\ status' = status /\ alive' = alive /\ name' = name /\ born' = born
      /\ timers' = timers /\ watched' = watched /\ flight' = flight /\ manager' = manager
      /\ epoch' = epoch /\ inbox' = inbox /\ hub' = hub /\ shell' = ShellIdle
      /\ shell.pc = "running"
  BY DEF Backgrounded, table, transcript
<1>2. /\ shell.run \in Runs /\ i \in Ids /\ status[shell.run] # "free"
  BY <1>1 DEF TypeInv, Shape
<1>3. /\ row \in [Ids -> Runs \cup {NoRun}] /\ NoRun \notin Runs
      /\ queue \in Seq(Delivery) /\ \A e \in Queued : e \in Delivery
  BY Basics
<1>4. \/ queue' = queue
      \/ /\ queue' = Append(queue, d) /\ i \in FinishedIds
         /\ \A k \in DOMAIN queue : queue[k].id # i
  BY DEF Backgrounded, Enqueue
<1>5. CASE queue' = queue
  <2>1. /\ Closing' /\ Rows' /\ QueuedOK' /\ FlightOK' /\ InboxOK' /\ Unique'
    BY <1>1, <1>5 DEF Places, Closing, Rows, QueuedOK, FlightOK, InboxOK, Unique, Queued
  <2>2. ShellOK' /\ HubOK'
    BY <1>1 DEF Places, ShellOK, HubOK, ShellIdle
  <2> QED
    BY <2>1, <2>2 DEF Places
<1>6. CASE queue' # queue
  <2>1. /\ queue' = Append(queue, d) /\ i \in FinishedIds
        /\ \A k \in DOMAIN queue : queue[k].id # i
    BY <1>4, <1>6
  <2>2. /\ run \in Runs /\ status[run] = "finished" /\ name[run] = i /\ run # NoRun
    BY <2>1, <1>2, <1>3 DEF FinishedIds, Tracked, TypeInv, Shape
  <2>3. d.run = run /\ d.id = i /\ d.owned /\ d \in Delivery
    BY <2>2, <1>2 DEF Delivery
  <2>4. manager = "up"
    BY <2>2, <1>2 DEF Places, Closing
  <2>5. run = shell.run /\ ~Out(run)
    BY <2>4, <1>1 DEF Places, ShellOK
  <2>6. born[run] = epoch
    BY <2>2, <1>2 DEF Places, Rows
  <2> HIDE DEF d
  <2>7. Queued' = Queued \cup {d} /\ Distinct(queue')
    <3>1. \A e \in Members(queue) : e.run # d.run
      BY <2>3, <2>5 DEF Out, Queued
    <3>2. Distinct(queue)
      BY DEF Places, Unique
    <3> QED
      BY <2>1, <2>3, <3>1, <3>2, <1>3, AppendMembers DEF Queued
  <2>8. Closing' /\ Rows' /\ FlightOK' /\ InboxOK'
    BY <1>1 DEF Places, Closing, Rows, FlightOK, InboxOK
  <2>9. QueuedOK'
    <3>1. \A e \in Queued : /\ status[e.run] = "finished" /\ name[e.run] = e.id
                            /\ row[e.id] = e.run /\ e.owned /\ born[e.run] = epoch
      BY DEF Places, QueuedOK
    <3>2. /\ status[d.run] = "finished" /\ name[d.run] = d.id
          /\ row[d.id] = d.run /\ d.owned /\ born[d.run] = epoch
      BY <2>2, <2>3, <2>6
    <3>3. \A e \in Queued' : /\ status[e.run] = "finished" /\ name[e.run] = e.id
                             /\ row[e.id] = e.run /\ e.owned /\ born[e.run] = epoch
      BY <3>1, <3>2, <2>7
    <3> QED
      BY <3>3, <1>1 DEF QueuedOK
  <2>10. Unique'
    <3>1. \A f \in flight : f.run # d.run
      BY <2>3, <2>5 DEF Out
    <3>2. \A e \in inbox : e.run # d.run
      BY <2>3, <2>5 DEF Out
    <3> QED
      BY <3>1, <3>2, <2>7, <1>1 DEF Places, Unique
  <2>11. ShellOK' /\ HubOK'
    BY <1>1 DEF Places, ShellOK, HubOK, ShellIdle
  <2> QED
    BY <2>8, <2>9, <2>10, <2>11 DEF Places
<1> QED
  BY <1>5, <1>6

\* A session that cancels its jobs leaves rows of cancelled ones only, and nothing
\* queued.
LEMMA CancelOwnFacts ==
  ASSUME TypeInv, JobAssumption, Places, manager = "up", CancelOwnAsyncJobs,
         UNCHANGED <<alive, name, born, flight>>
  PROVE  /\ \A s \in Runs : /\ status'[s] \notin Active
                            /\ status[s] = "finished" => status'[s] = "finished"
         /\ \A k \in Ids : row'[k] # NoRun => row'[k] = row[k] /\ status'[row[k]] = "cancelled"
         /\ \A k \in Ids : row[k] # NoRun /\ k \notin FinishedIds => row'[k] = row[k]
         /\ \A s \in alive : row'[name[s]] = s
         /\ Queued' = {} /\ Distinct(queue') /\ inbox' = {}
         /\ \A s : Out(s)' => Out(s)
<1>1. /\ status' = Cancelled(ActiveIds) /\ row' = Evicted(FinishedIds) /\ inbox' = {}
      /\ queue' = IF FinishedIds = {} THEN queue
                  ELSE Without(queue, FinishedIds \cup suppressed \cup watched)
  BY DEF CancelOwnAsyncJobs
<1>2. /\ row \in [Ids -> Runs \cup {NoRun}] /\ NoRun \notin Runs /\ alive \subseteq Runs
      /\ status \in [Runs -> Active \cup {"free", "finished", "cancelled"}]
      /\ \A e \in Queued : e \in Delivery
  BY Basics
<1>3. /\ \A r \in Runs :
           \/ status'[r] = status[r]
           \/ status'[r] = "cancelled" /\ status[r] \in Active /\ \E i \in ActiveIds : row[i] = r
      /\ \A i \in ActiveIds : status'[row[i]] = "cancelled"
  <2>1. ActiveIds \in SUBSET ActiveIds
    OBVIOUS
  <2> QED
    BY <1>1, <2>1, CancelledFacts
<1>4. \A s \in alive : name[s] \in Ids /\ row[name[s]] = s /\ status[s] \in Active \cup {"cancelled"}
  BY <1>2 DEF Places, Rows, TypeInv, Shape, Active
<1>5. \A s \in Runs : status[s] \in Active => name[s] \in ActiveIds /\ row[name[s]] = s
  BY <1>2, <1>4 DEF TypeInv, Shape, ActiveIds, Tracked
<1>6. \A s \in Runs : /\ status'[s] \notin Active
                      /\ status[s] = "finished" => status'[s] = "finished"
  <2>1. "cancelled" \notin Active /\ "finished" \notin Active
    BY DEF Active
  <2> QED
    BY <1>3, <1>5, <2>1
<1>7. \A k \in Ids : row'[k] = IF k \in FinishedIds THEN NoRun ELSE row[k]
  BY <1>1 DEF Evicted
<1>8. ASSUME NEW k \in Ids, row'[k] # NoRun
      PROVE  row'[k] = row[k] /\ status'[row[k]] = "cancelled"
  <2>1. k \notin FinishedIds /\ row'[k] = row[k] /\ k \in Tracked /\ row[k] \in Runs
    BY <1>2, <1>7, <1>8 DEF Tracked
  <2>2. status[row[k]] # "finished" /\ status[row[k]] # "free"
    BY <2>1 DEF FinishedIds, Tracked, TypeInv, Shape
  <2>3. status[row[k]] \in Active \/ status[row[k]] = "cancelled"
    BY <2>1, <2>2, <1>2
  <2>4. CASE status[row[k]] \in Active
    <3>1. k \in ActiveIds
      BY <2>1, <2>4 DEF ActiveIds
    <3> QED
      BY <2>1, <3>1, <1>3
  <2>5. CASE status[row[k]] = "cancelled"
    BY <2>1, <2>5, <1>3
  <2> QED
    BY <2>1, <2>3, <2>4, <2>5
<1>9. \A s \in alive : row'[name[s]] = s
  <2>1. \A s \in alive : name[s] \notin FinishedIds
    BY <1>4 DEF FinishedIds, Active
  <2> QED
    BY <1>4, <1>7, <2>1
<1>10. Queued' = {} /\ Distinct(queue')
  <2>1. \A e \in Queued : e.id \in FinishedIds
    BY <1>2 DEF Places, QueuedOK, Delivery, FinishedIds, Tracked
  <2>2. CASE FinishedIds = {}
    BY <2>1, <2>2, <1>1 DEF Queued, Places, Unique
  <2>3. CASE FinishedIds # {}
    <3>1. queue' = Without(queue, FinishedIds \cup suppressed \cup watched)
      BY <1>1, <2>3
    <3>2. /\ Queued' = {e \in Queued : e.id \notin FinishedIds \cup suppressed \cup watched}
          /\ Distinct(queue')
      BY <3>1, WithoutQueued
    <3> QED
      BY <2>1, <3>2
  <2> QED
    BY <2>2, <2>3
<1>11. \A s : Out(s)' => Out(s)
  BY <1>1, <1>10 DEF Out
<1> QED
  BY <1>1, <1>6, <1>7, <1>8, <1>9, <1>10, <1>11

LEMMA NewSessionPlaces ==
  ASSUME TypeInv, TypeInv', JobAssumption, Places, newSession
  PROVE  Places'
<1>1. /\ CancelOwnAsyncJobs /\ epoch' = epoch + 1 /\ hub.pc = "idle" /\ shell.pc = "idle"
      /\ timers' = (timers \cup ActiveIds) \ FinishedIds /\ watched' \subseteq watched
      /\ alive' = alive /\ name' = name /\ born' = born /\ flight' = flight
      /\ manager' = manager /\ hub' = hub /\ shell' = shell
  BY DEF newSession, CancelOwnAsyncJobs
<1>2. manager = "up"
  BY DEF newSession, TypeInv, Shape
<1>3. /\ \A s \in Runs : /\ status'[s] \notin Active
                         /\ status[s] = "finished" => status'[s] = "finished"
      /\ \A k \in Ids : row'[k] # NoRun => row'[k] = row[k] /\ status'[row[k]] = "cancelled"
      /\ \A k \in Ids : row[k] # NoRun /\ k \notin FinishedIds => row'[k] = row[k]
      /\ \A s \in alive : row'[name[s]] = s
      /\ Queued' = {} /\ Distinct(queue') /\ inbox' = {}
  BY <1>1, <1>2, CancelOwnFacts
<1>4. /\ row \in [Ids -> Runs \cup {NoRun}] /\ timers \subseteq Ids /\ epoch \in Nat
      /\ flight \subseteq Held
  BY Basics
<1>5. Closing'
  BY <1>1, <1>2 DEF Closing
<1>6. Rows'
  <2>1. ASSUME NEW k \in timers' PROVE row'[k] # NoRun /\ status'[row'[k]] \notin Active
    <3>1. k \in Ids /\ k \notin FinishedIds /\ row[k] # NoRun
      BY <1>1, <1>4 DEF Places, Rows, ActiveIds, Tracked
    <3>2. row'[k] = row[k] /\ status'[row[k]] = "cancelled"
      BY <3>1, <1>3
    <3> QED
      BY <3>1, <3>2 DEF Active
  <2>2. \A k \in Ids : row'[k] # NoRun => status'[row'[k]] = "cancelled"
    BY <1>3
  <2> QED
    BY <1>1, <1>3, <2>1, <2>2 DEF Rows
<1>7. QueuedOK' /\ InboxOK'
  BY <1>3 DEF QueuedOK, InboxOK
<1>8. FlightOK'
  <2>1. SUFFICES ASSUME NEW f \in flight
                 PROVE  /\ status'[f.run] = "finished" /\ name[f.run] = f.id
                        /\ born[f.run] = f.epoch /\ f.epoch <= epoch + 1
                        /\ f.epoch # epoch + 1
    BY <1>1 DEF FlightOK
  <2>2. f.run \in Runs /\ f.epoch \in Nat
    BY <1>4 DEF Held, Epochs
  <2>3. /\ status[f.run] = "finished" /\ name[f.run] = f.id
        /\ born[f.run] = f.epoch /\ f.epoch <= epoch
    BY DEF Places, FlightOK
  <2> QED
    BY <2>2, <2>3, <1>3, <1>4
<1>9. Unique'
  BY <1>1, <1>3 DEF Places, Unique
<1>10. ShellOK' /\ HubOK'
  BY <1>1 DEF Places, ShellOK, HubOK
<1> QED
  BY <1>5, <1>6, <1>7, <1>8, <1>9, <1>10 DEF Places

LEMMA DisposeOwnedAsyncJobsPlaces ==
  ASSUME TypeInv, TypeInv', JobAssumption, Places, disposeOwnedAsyncJobs
  PROVE  Places'
<1>1. /\ CancelOwnAsyncJobs /\ epoch' = epoch /\ manager' = "closing" /\ timers' = {}
      /\ watched' = watched \ FinishedIds
      /\ alive' = alive /\ name' = name /\ born' = born /\ flight' = flight
      /\ hub' = hub /\ shell' = shell
  BY DEF disposeOwnedAsyncJobs, CancelOwnAsyncJobs
<1>2. manager = "up"
  BY DEF disposeOwnedAsyncJobs, TypeInv, Shape
<1>3. /\ \A s \in Runs : /\ status'[s] \notin Active
                         /\ status[s] = "finished" => status'[s] = "finished"
      /\ \A k \in Ids : row'[k] # NoRun => row'[k] = row[k] /\ status'[row[k]] = "cancelled"
      /\ \A k \in Ids : row[k] # NoRun /\ k \notin FinishedIds => row'[k] = row[k]
      /\ \A s \in alive : row'[name[s]] = s
      /\ Queued' = {} /\ Distinct(queue') /\ inbox' = {}
      /\ \A s : Out(s)' => Out(s)
  BY <1>1, <1>2, CancelOwnFacts
<1>4. /\ row \in [Ids -> Runs \cup {NoRun}] /\ watched \subseteq Ids /\ NoRun \notin Runs
      /\ flight \subseteq Held /\ hub.runs \subseteq Runs
  BY Basics
<1>5. Closing'
  BY <1>1, <1>3 DEF Closing
<1>6. Rows'
  BY <1>1, <1>3 DEF Rows
<1>7. QueuedOK' /\ InboxOK'
  BY <1>3 DEF QueuedOK, InboxOK
<1>8. FlightOK'
  BY <1>1, <1>3, <1>4 DEF Places, FlightOK, Held
<1>9. Unique'
  BY <1>1, <1>3 DEF Places, Unique
<1>10. ShellOK'
  BY <1>1, <1>3 DEF Places, ShellOK
<1>11. HubOK'
  <2>1. ASSUME NEW k \in watched' PROVE row'[k] \in hub.runs
    <3>1. k \in Ids /\ k \notin FinishedIds /\ row[k] \in hub.runs /\ row[k] # NoRun
      BY <1>1, <1>4 DEF Places, HubOK
    <3> QED
      BY <3>1, <1>3
  <2> QED
    BY <1>1, <2>1 DEF Places, HubOK
<1> QED
  BY <1>5, <1>6, <1>7, <1>8, <1>9, <1>10, <1>11 DEF Places

LEMMA DisposedPlaces ==
  ASSUME TypeInv, TypeInv', JobAssumption, Places, disposed
  PROVE  Places'
<1>1. /\ manager = "closing" /\ manager' = "closed" /\ \A i \in Ids : row'[i] = NoRun
      /\ timers' = {} /\ watched' = {} /\ queue' = <<>> /\ flight' = {}
      /\ status' = status /\ alive' = alive /\ inbox' = inbox /\ shell' = shell
  BY DEF disposed, transcript
<1>2. inbox = {}
  BY <1>1 DEF TypeInv, Shape
<1>3. Queued' = {} /\ Distinct(queue')
  BY <1>1 DEF Queued, Members, Distinct
<1>4. Closing'
  BY <1>1 DEF Places, Closing
<1>5. Rows'
  BY <1>1 DEF Places, Closing, Rows
<1>6. QueuedOK' /\ FlightOK' /\ InboxOK' /\ Unique' /\ HubOK'
  BY <1>1, <1>2, <1>3 DEF QueuedOK, FlightOK, InboxOK, Unique, HubOK
<1>7. ShellOK'
  BY <1>1, <1>2, <1>3 DEF ShellOK, Out
<1> QED
  BY <1>4, <1>5, <1>6, <1>7 DEF Places

LEMMA InitPlaces == ASSUME JobAssumption, Init PROVE Places
<1>1. Queued = {} /\ Distinct(queue)
  BY DEF Init, Queued, Members, Distinct
<1>2. Closing /\ Rows
  BY DEF Init, Closing, Rows, Active
<1>3. QueuedOK /\ FlightOK /\ InboxOK /\ Unique /\ ShellOK /\ HubOK
  BY <1>1 DEF Init, QueuedOK, FlightOK, InboxOK, Unique, ShellOK, ShellIdle, HubOK
<1> QED
  BY <1>2, <1>3 DEF Places

LEMMA StepPlaces ==
  ASSUME TypeInv, JobAssumption, ~SlowExit, Places, [Next]_vars
  PROVE  Places'
<1>0. TypeInv'
  BY StepTyped
<1>1. ASSUME NEW r \in Runs, NEW i \in Ids, register(r, i) \/ StartForeground(r, i)
      PROVE  Places'
  BY <1>0, <1>1, registerPlaces, StartForegroundPlaces
<1>2. ASSUME NEW r \in Runs, markRunning(r) \/ Settle(r)
      PROVE  Places'
  BY <1>0, <1>2, MarkRunningPlaces, SettlePlaces
<1>3. ASSUME NEW i \in Ids, EvictTimer(i) \/ executeCancel(i)
      PROVE  Places'
  BY <1>0, <1>3, EvictTimerPlaces, ExecuteCancelPlaces
<1>4. ASSUME RunDeliveryLoop \/ DeliverNextFiltered \/ (\E f \in flight : SinkDone(f)) \/ Inject
      PROVE  Places'
  BY <1>0, <1>4, RunDeliveryLoopPlaces, DeliverNextFilteredPlaces, SinkDonePlaces, InjectPlaces
<1>5. ASSUME NEW S \in SUBSET Ids, executeJobsSnapshot(S) \/ WaitForJobs(S)
      PROVE  Places'
  BY <1>0, <1>5, ExecuteJobsSnapshotPlaces, WaitForJobsPlaces
<1>6. ASSUME WaitRaced \/ WaitMessage \/ WaitUnwatch \/ WaitReport
      PROVE  Places'
  BY <1>0, <1>6, WaitRacedPlaces, WaitMessagePlaces, WaitUnwatchPlaces, WaitReportPlaces
<1>7. ASSUME NEW o \in {"completed", "running", "aborted"}, ForegroundRaced(o)
      PROVE  Places'
  BY <1>0, <1>7, ForegroundRacedPlaces
<1>8. ASSUME ForegroundCompleted \/ ForegroundAborted \/ Backgrounded
      PROVE  Places'
  BY <1>0, <1>8, ForegroundCompletedPlaces, ForegroundAbortedPlaces, BackgroundedPlaces
<1>9. ASSUME (\E b \in BOOLEAN : WaitOwner(b)) \/ WaitOwnerRound
      PROVE  Places'
  BY <1>0, <1>9, WaitOwnerPlaces, WaitOwnerRoundPlaces
<1>10. ASSUME newSession \/ beginDispose \/ disposeOwnedAsyncJobs \/ disposed
       PROVE  Places'
  BY <1>0, <1>10, NewSessionPlaces, BeginDisposePlaces, DisposeOwnedAsyncJobsPlaces,
     DisposedPlaces
<1>11. ASSUME UNCHANGED vars PROVE Places'
  BY <1>11 DEF vars, Places, Closing, Rows, QueuedOK, FlightOK, InboxOK, Unique, ShellOK,
     HubOK,
               Out, Queued, Distinct
<1> QED
  BY <1>1, <1>2, <1>3, <1>4, <1>5, <1>6, <1>7, <1>8, <1>9, <1>10, <1>11 DEF Next

LEMMA PlacesHold == ASSUME ~SlowExit PROVE Spec => [](TypeInv /\ Places)
<1>1. Init => TypeInv /\ Places
  BY InitTyped, InitPlaces, JobAssumption
<1>2. TypeInv /\ Places /\ [Next]_vars => (TypeInv /\ Places)'
  BY StepTyped, StepPlaces, JobAssumption
<1> QED
  BY <1>1, <1>2, PTL DEF Spec

\* A job that runs and was not cancelled has its row, if a cancelled process never
\* outlives the retention of its row (job-manager.ts:245).
THEOREM TrackedHolds == ASSUME ~SlowExit PROVE Spec => []ActiveIsTracked
<1>1. Spec => [](TypeInv /\ Places)
  BY PlacesHold
<1>2. TypeInv /\ Places => ActiveIsTracked
  BY DEF TypeInv, Shape, Places, Rows, ActiveIsTracked
<1> QED
  BY <1>1, <1>2, PTL

\* Only the injection of follow-ups changes both them and what was told.
LEMMA InjectsAlone ==
  ASSUME [Next]_vars, inbox' # inbox, told' # told
  PROVE  Inject
<1>1. ASSUME NEW r \in Runs, NEW i \in Ids, register(r, i) \/ StartForeground(r, i)
      PROVE  FALSE
  BY <1>1 DEF register, StartForeground, Register, transcript
<1>2. ASSUME NEW r \in Runs, markRunning(r) \/ Settle(r)
      PROVE  FALSE
  BY <1>2 DEF markRunning, Settle, transcript
<1>3. ASSUME NEW i \in Ids, EvictTimer(i) \/ executeCancel(i)
      PROVE  FALSE
  BY <1>3 DEF EvictTimer, executeCancel, transcript
<1>4. ASSUME RunDeliveryLoop \/ DeliverNextFiltered \/ (\E f \in flight : SinkDone(f))
      PROVE  FALSE
  BY <1>4 DEF RunDeliveryLoop, DeliverNextFiltered, SinkDone, transcript, history
<1>5. ASSUME NEW S \in SUBSET Ids, executeJobsSnapshot(S) \/ WaitForJobs(S)
      PROVE  FALSE
  BY <1>5 DEF executeJobsSnapshot, WaitForJobs, transcript
<1>6. ASSUME WaitRaced \/ WaitMessage \/ WaitUnwatch \/ WaitReport
      PROVE  FALSE
  BY <1>6 DEF WaitRaced, WaitMessage, WaitUnwatch, WaitReport, transcript
<1>7. ASSUME NEW o \in {"completed", "running", "aborted"}, ForegroundRaced(o)
      PROVE  FALSE
  BY <1>7 DEF ForegroundRaced, transcript
<1>8. ASSUME ForegroundCompleted \/ ForegroundAborted \/ Backgrounded
      PROVE  FALSE
  BY <1>8 DEF ForegroundCompleted, ForegroundAborted, Backgrounded, transcript
<1>9. ASSUME (\E b \in BOOLEAN : WaitOwner(b)) \/ WaitOwnerRound
      PROVE  FALSE
  BY <1>9 DEF WaitOwner, WaitOwnerRound, transcript
<1>10. ASSUME newSession \/ beginDispose \/ disposeOwnedAsyncJobs \/ disposed
       PROVE  FALSE
  BY <1>10 DEF newSession, beginDispose, disposeOwnedAsyncJobs, disposed, history
<1>11. ASSUME UNCHANGED vars PROVE FALSE
  BY <1>11 DEF vars
<1> QED
  BY <1>1, <1>2, <1>3, <1>4, <1>5, <1>6, <1>7, <1>8, <1>9, <1>10, <1>11 DEF Next

\* A result is injected into the transcript its job was started from, and not while
\* the session is disposed (agent-session.ts:1895, 1968).
THEOREM OwnTranscriptHolds == ASSUME ~SlowExit PROVE Spec => OwnTranscript
<1> DEFINE Good == inbox' # inbox =>
                     \A r \in Runs : told'[r] # told[r] => born[r] = epoch /\ session = "live"
<1>1. ASSUME TypeInv, Places, [Next]_vars
      PROVE  [Good]_vars
  <2>1. SUFFICES ASSUME inbox' # inbox, NEW r \in Runs, told'[r] # told[r]
                 PROVE  born[r] = epoch /\ session = "live"
    OBVIOUS
  <2>2. Inject
    BY <1>1, <2>1, InjectsAlone
  <2> DEFINE mine == {e \in inbox : e.run = r /\ Fresh(e)}
  <2>3. told'[r] = told[r] + Cardinality(mine) /\ told[r] \in Nat
    BY <2>2, <1>1, Basics, JobAssumption DEF Inject
  <2>4. mine # {}
    <3>1. Cardinality({}) = 0
      BY FS_EmptySet
    <3> HIDE DEF mine
    <3> QED
      BY <2>1, <2>3, <3>1
  <2>5. PICK e \in inbox : e.run = r
    BY <2>4
  <2> QED
    BY <1>1, <2>5 DEF TypeInv, Shape, Places, InboxOK
<1>2. TypeInv /\ Places /\ [Next]_vars => [Good]_vars
  BY <1>1
<1>3. Spec => [](TypeInv /\ Places)
  BY PlacesHold
<1> HIDE DEF Good
<1>4. Spec => [][Good]_vars
  BY <1>2, <1>3, PTL DEF Spec
<1> QED
  BY <1>4 DEF Good, OwnTranscript

--------------------------------------------------------------------------------
(* What becomes of each result.                                            *)

\* It may still be injected: in the generation and the session it was noted for.
Coming(r) ==
  \/ \E d \in Queued : d.run = r
  \/ \E f \in flight : f.run = r /\ f.epoch = epoch /\ session = "live"
  \/ \E e \in inbox : e.run = r

\* The job of a foreground call is new, and over when the call has seen its end.
Calls ==
  /\ \A r \in restored : status[r] = "finished"
  /\ \A r \in Runs : born[r] <= epoch
  /\ shell.pc # "idle" => shell.run \notin restored
  /\ shell.pc = "completed" => shell.run \notin alive

\* An id is marked because its job was cancelled or told, or belongs to a
\* foreground call.
SuppOK ==
  \A i \in suppressed : row[i] # NoRun =>
    \/ status[row[i]] = "cancelled"
    \/ told[row[i]] > 0
    \/ shell.pc # "idle" /\ shell.run = row[i]

\* What was told is not told again, unless it was put back, and then once.
ToldOK ==
  \A r \in Runs : told[r] > 0 =>
    /\ status[r] = "finished"
    /\ told[r] = 1 \/ (told[r] = 2 /\ r \in restored)
    /\ Coming(r) => name[r] \in suppressed \/ (told[r] = 1 /\ r \in restored)

\* The hub wait in progress will report it.
HubHas(r) ==
  r \in hub.runs /\ row[name[r]] = r /\ (name[r] \in watched \/ hub.pc = "reporting")

\* A result of the current transcript was told, or something is left to tell it.
Fate(r) ==
  \/ told[r] > 0
  \/ r \in dropped
  \/ Out(r) /\ name[r] \notin suppressed
  \/ shell.pc # "idle" /\ shell.run = r
  \/ HubHas(r)
Ended(r) == session = "live" /\ status[r] = "finished" /\ born[r] = epoch
FinalOK == \A r \in Runs : Ended(r) => Fate(r)

Fates == Calls /\ SuppOK /\ ToldOK /\ FinalOK

\* What may still be injected has its row.
LEMMA ComingTracked ==
  ASSUME TypeInv, JobAssumption, ~SlowStep, Places, NEW r \in Runs, Coming(r)
  PROVE  /\ row[name[r]] = r /\ name[r] \in Ids /\ manager = "up" /\ status[r] = "finished"
         /\ Out(r)
<1>1. CASE \E d \in Queued : d.run = r
  <2>1. PICK d \in Queued : d.run = r
    BY <1>1
  <2>2. d \in Delivery
    BY Basics
  <2>3. status[r] = "finished" /\ name[r] = d.id /\ row[d.id] = r /\ d.id \in Ids
    BY <2>1, <2>2 DEF Places, QueuedOK, Delivery
  <2>4. manager = "up"
    BY <2>3, Basics DEF Places, Closing
  <2> QED
    BY <1>1, <2>3, <2>4 DEF Out
<1>2. CASE \E f \in flight : f.run = r /\ f.epoch = epoch /\ session = "live"
  <2>1. PICK f \in flight : f.run = r /\ f.epoch = epoch /\ session = "live"
    BY <1>2
  <2>2. f \in Held /\ manager = "up"
    BY <2>1, Basics DEF TypeInv, Shape
  <2>3. status[r] = "finished" /\ name[r] = f.id /\ row[f.id] = r /\ f.id \in Ids
    BY <2>1, <2>2 DEF Places, FlightOK, Held
  <2> QED
    BY <2>1, <2>2, <2>3 DEF Out
<1>3. CASE \E e \in inbox : e.run = r
  <2>1. PICK e \in inbox : e.run = r
    BY <1>3
  <2>2. e \in Entry /\ manager = "up"
    BY <2>1, Basics DEF TypeInv, Shape
  <2>3. status[r] = "finished" /\ name[r] = e.id /\ row[e.id] = r /\ e.id \in Ids
    BY <2>1, <2>2 DEF Places, InboxOK, Entry
  <2> QED
    BY <2>1, <2>2, <2>3 DEF Out
<1> QED
  BY <1>1, <1>2, <1>3 DEF Coming

\* So has every result on its way in the current transcript.
LEMMA OutTracked ==
  ASSUME TypeInv, JobAssumption, ~SlowStep, Places, NEW r \in Runs, Ended(r), Out(r)
  PROVE  row[name[r]] = r /\ name[r] \in Ids /\ Coming(r)
<1>1. \A f \in flight : f.run = r => f.epoch = epoch
  BY DEF Ended, Places, FlightOK
<1>2. Coming(r)
  BY <1>1 DEF Out, Ended, Coming
<1> QED
  BY <1>2, ComingTracked

\* A watched job is one of the hub wait.
LEMMA WatchedHas ==
  ASSUME TypeInv, JobAssumption, Places, NEW r \in Runs, row[name[r]] = r, name[r] \in watched
  PROVE  HubHas(r)
BY DEF Places, HubOK, HubHas

\* Dropping what is queued for marked and watched ids takes a result away only if
\* its id is marked or the hub wait has it.
LEMMA MarkedDropped ==
  ASSUME TypeInv, JobAssumption, Places, NEW S, NEW r \in Runs,
         queue' = Without(queue, S \cup watched), flight' = flight, inbox' = inbox,
         Out(r), name[r] \notin S
  PROVE  Out(r)' \/ name[r] \in watched
<1>1. Queued' = {d \in Queued : d.id \notin S \cup watched}
  BY WithoutQueued
<1>2. \A d \in Queued : d.run = r => d.id = name[r]
  BY DEF Places, QueuedOK
<1> QED
  BY <1>1, <1>2 DEF Out

LEMMA InitFates == ASSUME JobAssumption, Init PROVE Fates
<1>1. Calls
  BY DEF Init, Calls, ShellIdle
<1>2. SuppOK /\ ToldOK
  BY DEF Init, SuppOK, ToldOK
<1>3. FinalOK
  BY DEF Init, FinalOK, Ended
<1> QED
  BY <1>1, <1>2, <1>3 DEF Fates

\* Nothing told, put back or newly marked.
LEMMA ToldStays ==
  ASSUME TypeInv, JobAssumption, Fates, UNCHANGED <<told, restored>>,
         \A r \in Runs : status[r] = "finished" => status'[r] = "finished" /\ name'[r] = name[r],
         \A r \in Runs : Coming(r)' => Coming(r),
         \A r \in Runs : Coming(r)' /\ name[r] \in suppressed => name[r] \in suppressed'
  PROVE  ToldOK' /\ \A r \in restored' : status'[r] = "finished"
<1>1. ToldOK'
  <2>1. SUFFICES ASSUME NEW r \in Runs, told[r] > 0
                 PROVE  /\ status'[r] = "finished"
                        /\ told[r] = 1 \/ (told[r] = 2 /\ r \in restored)
                        /\ Coming(r)' => name'[r] \in suppressed' \/ (told[r] = 1 /\ r \in restored)
    BY DEF ToldOK
  <2>2. /\ status[r] = "finished"
        /\ told[r] = 1 \/ (told[r] = 2 /\ r \in restored)
        /\ Coming(r) => name[r] \in suppressed \/ (told[r] = 1 /\ r \in restored)
    BY <2>1 DEF Fates, ToldOK
  <2> QED
    BY <2>2
<1>2. restored \subseteq Runs
  BY DEF TypeInv, TypeOK
<1> QED
  BY <1>1, <1>2 DEF Fates, Calls

LEMMA FinalStays ==
  ASSUME Fates, \A r \in Runs : Ended(r)' => Ended(r) /\ (Fate(r) => Fate(r)')
  PROVE  FinalOK'
BY DEF Fates, FinalOK

\* A step that only moves the calls: the table, the marks and the deliveries stay.
LEMMA QuietFates ==
  ASSUME TypeInv, JobAssumption, Fates,
         UNCHANGED <<row, status, name, born, alive, suppressed, queue, flight, inbox,
                     session, epoch, told, restored>>,
         dropped \subseteq dropped',
         shell'.run = shell.run, shell.pc = "idle" <=> shell'.pc = "idle",
         shell'.pc = "completed" => shell'.run \notin alive,
         \A r \in Runs : Ended(r) /\ HubHas(r) => Fate(r)'
  PROVE  Fates'
<1>1. \A r : (Coming(r)' <=> Coming(r)) /\ (Out(r)' <=> Out(r))
  BY DEF Coming, Out, Queued
<1>2. ToldOK'
  BY <1>1, ToldStays
<1>3. Calls' /\ SuppOK'
  BY DEF Fates, Calls, SuppOK
<1>4. FinalOK'
  <2>1. \A r \in Runs : Ended(r)' => Ended(r) /\ (Fate(r) => Fate(r)')
    BY <1>1 DEF Ended, Fate
  <2> QED
    BY <2>1, FinalStays
<1> QED
  BY <1>2, <1>3, <1>4 DEF Fates

LEMMA WaitForJobsFates ==
  ASSUME TypeInv, JobAssumption, Places, Fates, NEW S \in SUBSET Ids, WaitForJobs(S)
  PROVE  Fates'
<1>1. /\ UNCHANGED <<row, status, name, born, alive, suppressed, queue, flight, inbox,
                     session, epoch, told, restored, dropped, shell>>
      /\ hub.runs = {}
  BY DEF WaitForJobs, table, marks, deliveries, transcript, history, TypeInv, Shape
<1>2. \A r \in Runs : ~HubHas(r)
  BY <1>1 DEF HubHas
<1>3. shell'.pc = "completed" => shell'.run \notin alive
  BY <1>1 DEF Fates, Calls
<1> QED
  BY <1>1, <1>2, <1>3, QuietFates

LEMMA WaitRacedFates ==
  ASSUME TypeInv, JobAssumption, Places, Fates, WaitRaced \/ WaitMessage
  PROVE  Fates'
<1>1. /\ UNCHANGED <<row, status, name, born, alive, suppressed, queue, flight, inbox,
                     session, epoch, told, restored, dropped, shell, watched>>
      /\ hub'.runs = hub.runs /\ hub.pc # "reporting"
  BY DEF WaitRaced, WaitMessage, table, marks, deliveries, transcript, history, TypeInv, TypeOK
<1>2. \A r \in Runs : HubHas(r) => Fate(r)'
  BY <1>1 DEF HubHas, Fate
<1>3. shell'.pc = "completed" => shell'.run \notin alive
  BY <1>1 DEF Fates, Calls
<1> QED
  BY <1>1, <1>2, <1>3, QuietFates

LEMMA WaitUnwatchFates ==
  ASSUME TypeInv, JobAssumption, Places, Fates, WaitUnwatch
  PROVE  Fates'
<1>1. /\ UNCHANGED <<row, status, name, born, alive, suppressed, queue, flight, inbox,
                     session, epoch, told, restored, shell>>
      /\ dropped \subseteq dropped'
  BY DEF WaitUnwatch, table, deliveries, transcript
<1>2. ASSUME NEW r \in Runs, Ended(r), HubHas(r) PROVE Fate(r)'
  <2>1. CASE ~hub.mail
    <3>1. hub'.runs = hub.runs /\ hub'.pc = "reporting"
      BY <2>1 DEF WaitUnwatch, TypeInv, TypeOK
    <3> QED
      BY <3>1, <1>1, <1>2 DEF HubHas, Fate
  <2>2. CASE hub.mail
    <3>1. dropped' = dropped \cup {s \in hub.runs : /\ status[s] = "finished" /\ told[s] = 0
                                                   /\ ~Outstanding(s) /\ name[s] \notin suppressed}
      BY <2>2 DEF WaitUnwatch
    <3>2. r \in hub.runs /\ row[name[r]] = r /\ status[r] = "finished"
      BY <1>2 DEF HubHas, Ended
    <3>3. Outstanding(r) <=> Out(r)
      BY DEF Outstanding, Out, Queued, Members
    <3>4. Out(r)' <=> Out(r)
      BY <1>1 DEF Out, Queued
    <3>5. CASE name[r] \in suppressed
      <4>1. told[r] > 0 \/ (shell.pc # "idle" /\ shell.run = r)
        BY <3>2, <3>5, Basics DEF Fates, SuppOK
      <4> QED
        BY <4>1, <1>1 DEF Fate
    <3>6. CASE name[r] \notin suppressed
      <4>1. told[r] \in Nat
        BY Basics
      <4>2. told[r] > 0 \/ Out(r) \/ r \in dropped'
        BY <4>1, <3>1, <3>2, <3>3, <3>6
      <4> QED
        BY <4>2, <3>4, <3>6, <1>1 DEF Fate
    <3> QED
      BY <3>5, <3>6
  <2> QED
    BY <2>1, <2>2
<1>3. shell'.pc = "completed" => shell'.run \notin alive
  BY <1>1 DEF Fates, Calls
<1> QED
  BY <1>1, <1>2, <1>3, QuietFates

LEMMA ForegroundRacedFates ==
  ASSUME TypeInv, JobAssumption, Places, Fates,
         NEW o \in {"completed", "running", "aborted"}, ForegroundRaced(o)
  PROVE  Fates'
<1>1. /\ UNCHANGED <<row, status, name, born, alive, suppressed, queue, flight, inbox,
                     session, epoch, told, restored, dropped, hub, watched>>
      /\ shell' = [shell EXCEPT !.pc = o] /\ shell.pc = "waiting"
      /\ o = "completed" => shell.run \notin alive
  BY DEF ForegroundRaced, table, marks, deliveries, transcript, history
<1>2. shell'.run = shell.run /\ shell'.pc = o
  BY <1>1 DEF TypeInv, TypeOK
<1>3. \A r \in Runs : HubHas(r) => Fate(r)'
  BY <1>1 DEF HubHas, Fate
<1>4. shell.pc = "idle" <=> shell'.pc = "idle"
  BY <1>1, <1>2
<1>5. shell'.pc = "completed" => shell'.run \notin alive
  BY <1>1, <1>2
<1> QED
  BY <1>1, <1>2, <1>3, <1>4, <1>5, QuietFates

LEMMA WaitOwnerRoundFates ==
  ASSUME TypeInv, JobAssumption, Places, Fates, WaitOwnerRound
  PROVE  Fates'
<1>1. UNCHANGED <<row, status, name, born, alive, suppressed, queue, flight, inbox,
                  session, epoch, told, restored, dropped, hub, watched, shell>>
  BY DEF WaitOwnerRound, table, marks, deliveries, transcript, history
<1>2. \A r \in Runs : HubHas(r) => Fate(r)'
  BY <1>1 DEF HubHas, Fate
<1>3. shell'.pc = "completed" => shell'.run \notin alive
  BY <1>1 DEF Fates, Calls
<1> QED
  BY <1>1, <1>2, <1>3, QuietFates

\* A registration disturbs no result: neither run nor id stand for one.
LEMMA RegisterFates ==
  ASSUME TypeInv, JobAssumption, ~SlowStep, Places, Fates,
         NEW r \in Runs, NEW i \in Ids, NEW as \in Active, Register(r, i, as),
         suppressed \ {i} \subseteq suppressed', Queued' \subseteq Queued
  PROVE  /\ \A s \in restored' : status'[s] = "finished"
         /\ \A s \in Runs : born'[s] <= epoch'
         /\ ToldOK'
         /\ \A s \in Runs : Ended(s)' => s # r /\ Ended(s) /\ name'[s] = name[s]
         /\ \A s \in Runs : HubHas(s) => HubHas(s)'
         /\ \A k \in Ids \ {i} : row[k] # NoRun =>
              row'[k] = row[k] /\ row[k] \in Runs \ {r} /\ status'[row[k]] = status[row[k]]
<1>1. /\ row' = [row EXCEPT ![i] = r] /\ status' = [status EXCEPT ![r] = as]
      /\ name' = [name EXCEPT ![r] = i] /\ born' = [born EXCEPT ![r] = epoch]
      /\ status[r] = "free" /\ row[i] = NoRun
      /\ epoch' = epoch /\ inbox' = inbox /\ session' = session /\ flight' = flight
      /\ watched' = watched /\ hub' = hub /\ told' = told /\ restored' = restored
  BY DEF Register, transcript, history
<1>2. /\ row \in [Ids -> Runs \cup {NoRun}] /\ NoRun \notin Runs
      /\ status \in [Runs -> Active \cup {"free", "finished", "cancelled"}]
      /\ name \in [Runs -> Ids \cup {NoRun}] /\ born \in [Runs -> Epochs] /\ epoch \in Nat
      /\ hub.runs \subseteq Runs
  BY Basics
<1>3. /\ \A k \in Ids : row'[k] = IF k = i THEN r ELSE row[k]
      /\ \A s \in Runs : status'[s] = IF s = r THEN as ELSE status[s]
      /\ \A s \in Runs : name'[s] = IF s = r THEN i ELSE name[s]
      /\ \A s \in Runs : born'[s] = IF s = r THEN epoch ELSE born[s]
      /\ as # "finished"
  BY <1>1, <1>2 DEF Active
<1>4. \A s \in Runs : status[s] = "finished" => s # r /\ status'[s] = "finished" /\ name'[s] = name[s]
  BY <1>1, <1>3
<1>5. \A s \in Runs : Coming(s)' => Coming(s)
  BY <1>1 DEF Coming
<1>6. \A s \in Runs : Coming(s) => name[s] # i
  BY <1>1, <1>2, ComingTracked
<1>7. ToldOK' /\ \A s \in restored' : status'[s] = "finished"
  <2>1. \A s \in Runs : Coming(s)' /\ name[s] \in suppressed => name[s] \in suppressed'
    BY <1>5, <1>6
  <2> QED
    BY <2>1, <1>1, <1>4, <1>5, ToldStays
<1>8. \A s \in Runs : born'[s] <= epoch'
  BY <1>1, <1>2, <1>3 DEF Fates, Calls
<1>9. \A s \in Runs : Ended(s)' => s # r /\ Ended(s) /\ name'[s] = name[s]
  BY <1>1, <1>3 DEF Ended
<1>10. ASSUME NEW s \in Runs, HubHas(s) PROVE HubHas(s)'
  <2>1. s # r /\ status[s] # "free"
    BY <1>1, <1>10 DEF HubHas, TypeInv, Shape
  <2>2. name[s] \in Ids /\ name'[s] = name[s] /\ name[s] # i
    BY <2>1, <1>1, <1>2, <1>3, <1>10 DEF HubHas, TypeInv, Shape
  <2> QED
    BY <2>2, <1>1, <1>3, <1>10 DEF HubHas
<1>11. ASSUME NEW k \in Ids \ {i}, row[k] # NoRun
       PROVE  row'[k] = row[k] /\ row[k] \in Runs \ {r} /\ status'[row[k]] = status[row[k]]
  <2>1. row[k] \in Runs /\ status[row[k]] # "free"
    BY <1>2, <1>11 DEF TypeInv, Shape
  <2>2. row[k] # r
    BY <2>1, <1>1
  <2> QED
    BY <2>1, <2>2, <1>3
<1> QED
  BY <1>7, <1>8, <1>9, <1>10, <1>11

LEMMA registerFates ==
  ASSUME TypeInv, JobAssumption, ~SlowStep, Places, Fates, NEW r \in Runs, NEW i \in Ids,
         register(r, i)
  PROVE  Fates'
<1>0. PICK as \in Active : Register(r, i, as)
  BY DEF register
<1>1. /\ suppressed' = suppressed \ {i} /\ queue' = queue /\ shell' = shell
      /\ flight' = flight /\ inbox' = inbox /\ told' = told /\ restored' = restored
      /\ dropped' = dropped /\ alive' = alive \cup {r} /\ status[r] = "free"
  BY <1>0 DEF register, Register, transcript, history
<1>2. suppressed \ {i} \subseteq suppressed' /\ Queued' \subseteq Queued
  BY <1>1 DEF Queued
<1>3. /\ \A s \in restored' : status'[s] = "finished"
      /\ \A s \in Runs : born'[s] <= epoch'
      /\ ToldOK'
      /\ \A s \in Runs : Ended(s)' => s # r /\ Ended(s) /\ name'[s] = name[s]
      /\ \A s \in Runs : HubHas(s) => HubHas(s)'
      /\ \A k \in Ids \ {i} : row[k] # NoRun =>
           row'[k] = row[k] /\ row[k] \in Runs \ {r} /\ status'[row[k]] = status[row[k]]
  BY <1>0, <1>2, RegisterFates
<1>4. Calls'
  BY <1>1, <1>3 DEF Fates, Calls, TypeInv, Shape
<1>5. SuppOK'
  <2>1. suppressed' \subseteq Ids \ {i}
    BY <1>1, Basics
  <2>2. \A k \in Ids \ {i} : row'[k] # NoRun => row[k] # NoRun
    BY <1>0, Basics DEF Register
  <2> QED
    BY <2>1, <2>2, <1>1, <1>3 DEF Fates, SuppOK
<1>6. FinalOK'
  <2>1. \A s : Out(s) => Out(s)'
    BY <1>1 DEF Out, Queued
  <2>2. \A s \in Runs : Ended(s)' => Ended(s) /\ (Fate(s) => Fate(s)')
    BY <2>1, <1>1, <1>3 DEF Fate
  <2> QED
    BY <2>2, FinalStays
<1> QED
  BY <1>3, <1>4, <1>5, <1>6 DEF Fates

LEMMA StartForegroundFates ==
  ASSUME TypeInv, JobAssumption, ~SlowStep, Places, Fates, NEW r \in Runs, NEW i \in Ids,
         StartForeground(r, i)
  PROVE  Fates'
<1>0. Register(r, i, "running") /\ "running" \in Active
  BY DEF StartForeground, Active
<1>1. /\ suppressed' = suppressed \cup {i} /\ shell.pc = "idle"
      /\ queue' = Without(queue, ({i} \cup suppressed) \cup watched)
      /\ shell' = [pc |-> "waiting", run |-> r]
      /\ flight' = flight /\ inbox' = inbox /\ told' = told /\ restored' = restored
      /\ dropped' = dropped /\ alive' = alive \cup {r} /\ status[r] = "free" /\ row[i] = NoRun
      /\ row'[i] = r
  BY <1>0, Basics DEF StartForeground, Register, transcript, history
<1>2. suppressed \ {i} \subseteq suppressed' /\ Queued' \subseteq Queued
  BY <1>1, WithoutQueued
<1>3. /\ \A s \in restored' : status'[s] = "finished"
      /\ \A s \in Runs : born'[s] <= epoch'
      /\ ToldOK'
      /\ \A s \in Runs : Ended(s)' => s # r /\ Ended(s) /\ name'[s] = name[s]
      /\ \A s \in Runs : HubHas(s) => HubHas(s)'
      /\ \A k \in Ids \ {i} : row[k] # NoRun =>
           row'[k] = row[k] /\ row[k] \in Runs \ {r} /\ status'[row[k]] = status[row[k]]
  BY <1>0, <1>2, RegisterFates
<1>4. Calls'
  <2>1. r \notin restored
    BY <1>1 DEF Fates, Calls
  <2> QED
    BY <1>1, <1>3, <2>1 DEF Calls
<1>5. SuppOK'
  <2>1. ASSUME NEW k \in suppressed', row'[k] # NoRun
        PROVE  \/ status'[row'[k]] = "cancelled"
               \/ told[row'[k]] > 0
               \/ shell'.pc # "idle" /\ shell'.run = row'[k]
    <3>1. CASE k = i
      BY <3>1, <1>1
    <3>2. CASE k # i
      <4>1. k \in Ids \ {i} /\ k \in suppressed
        BY <3>2, <2>1, <1>1, Basics
      <4>2. row[k] # NoRun
        BY <4>1, <2>1, <1>0, Basics DEF Register
      <4>3. status[row[k]] = "cancelled" \/ told[row[k]] > 0
        BY <4>1, <4>2, <1>1 DEF Fates, SuppOK
      <4> QED
        BY <4>1, <4>2, <4>3, <1>3
    <3> QED
      BY <3>1, <3>2
  <2> QED
    BY <2>1, <1>1 DEF SuppOK
<1>6. FinalOK'
  <2>1. ASSUME NEW s \in Runs, Ended(s)', Fate(s) PROVE Fate(s)'
    <3>1. Ended(s) /\ s # r /\ name'[s] = name[s]
      BY <1>3, <2>1
    <3>2. CASE Out(s) /\ name[s] \notin suppressed
      <4>1. row[name[s]] = s /\ name[s] # i
        BY <3>1, <3>2, <1>1, Basics, OutTracked
      <4>2. name[s] \notin {i} \cup suppressed
        BY <4>1, <3>2
      <4>3. Out(s)' \/ name[s] \in watched
        BY <4>2, <3>2, <1>1, MarkedDropped
      <4>4. name[s] \in watched => HubHas(s)'
        BY <4>1, <1>3, WatchedHas
      <4> QED
        BY <4>2, <4>3, <4>4, <3>1, <1>1 DEF Fate
    <3> QED
      BY <3>2, <2>1, <1>1, <1>3 DEF Fate
  <2>2. \A s \in Runs : Ended(s)' => Ended(s) /\ (Fate(s) => Fate(s)')
    BY <2>1, <1>3
  <2> QED
    BY <2>2, FinalStays
<1> QED
  BY <1>3, <1>4, <1>5, <1>6 DEF Fates

\* A job that is cancelled or begins to run has no result yet.
LEMMA StatusFates ==
  ASSUME TypeInv, JobAssumption, Fates,
         UNCHANGED <<row, alive, name, born, suppressed, queue, flight, inbox, session, epoch,
                     told, dropped, restored, hub, watched, shell>>,
         \A s \in Runs : \/ status'[s] = status[s]
                         \/ status[s] \in Active /\ status'[s] \in Active \cup {"cancelled"}
  PROVE  Fates'
<1>1. /\ \A s \in Runs : status'[s] = "finished" <=> status[s] = "finished"
      /\ \A s \in Runs : status[s] = "cancelled" => status'[s] = "cancelled"
  BY DEF Active
<1>2. \A r : (Coming(r)' <=> Coming(r)) /\ (Out(r)' <=> Out(r)) /\ (HubHas(r)' <=> HubHas(r))
  BY DEF Coming, Out, Queued, HubHas
<1>3. ToldOK' /\ \A s \in restored' : status'[s] = "finished"
  BY <1>1, <1>2, ToldStays
<1>4. Calls'
  BY <1>3 DEF Fates, Calls
<1>5. SuppOK'
  BY <1>1, Basics DEF Fates, SuppOK
<1>6. FinalOK'
  <2>1. \A r \in Runs : Ended(r)' => Ended(r) /\ (Fate(r) => Fate(r)')
    BY <1>1, <1>2 DEF Ended, Fate
  <2> QED
    BY <2>1, FinalStays
<1> QED
  BY <1>3, <1>4, <1>5, <1>6 DEF Fates

LEMMA MarkRunningFates ==
  ASSUME TypeInv, JobAssumption, Places, Fates, NEW r \in Runs, markRunning(r)
  PROVE  Fates'
<1>1. /\ UNCHANGED <<row, alive, name, born, suppressed, queue, flight, inbox, session, epoch,
                     told, dropped, restored, hub, watched, shell>>
      /\ status[r] = "queued" /\ status' = [status EXCEPT ![r] = "running"]
      /\ status \in [Runs -> Active \cup {"free", "finished", "cancelled"}]
  BY Basics DEF markRunning, marks, deliveries, transcript, history
<1>2. "queued" \in Active /\ "running" \in Active \cup {"cancelled"}
  BY DEF Active
<1>3. \A s \in Runs : status'[s] = IF s = r THEN "running" ELSE status[s]
  BY <1>1
<1>4. \A s \in Runs : \/ status'[s] = status[s]
                      \/ status[s] \in Active /\ status'[s] \in Active \cup {"cancelled"}
  BY <1>1, <1>2, <1>3
<1> QED
  BY <1>1, <1>4, StatusFates

LEMMA WaitOwnerFates ==
  ASSUME TypeInv, JobAssumption, Places, Fates, NEW b \in BOOLEAN, WaitOwner(b)
  PROVE  Fates'
<1>1. UNCHANGED <<row, alive, name, born, suppressed, queue, flight, inbox, session, epoch,
                  told, dropped, restored, hub, watched, shell>>
  BY DEF WaitOwner, marks, deliveries, transcript, history
<1>2. \A s \in Runs : \/ status'[s] = status[s]
                      \/ status[s] \in Active /\ status'[s] \in Active \cup {"cancelled"}
  <2>1. CASE b
    <3>1. ActiveIds \in SUBSET ActiveIds /\ status' = Cancelled(ActiveIds)
      BY <2>1 DEF WaitOwner
    <3> QED
      BY <3>1, CancelsOnly
  <2>2. CASE ~b
    BY <2>2 DEF WaitOwner
  <2> QED
    BY <2>1, <2>2
<1> QED
  BY <1>1, <1>2, StatusFates

LEMMA SettleFates ==
  ASSUME TypeInv, JobAssumption, Places, Fates, NEW r \in Runs, Settle(r)
  PROVE  Fates'
<1>1. /\ r \in alive /\ alive' = alive \ {r} /\ name[r] \in Ids
      /\ row' = row /\ name' = name /\ born' = born /\ suppressed' = suppressed
      /\ watched' = watched /\ flight' = flight /\ manager' = manager /\ inbox' = inbox
      /\ epoch' = epoch /\ session' = session /\ hub' = hub /\ shell' = shell
      /\ told' = told /\ dropped' = dropped /\ restored' = restored
  BY DEF Settle, TypeInv, Shape, Active, marks, transcript, history
<1>2. CASE status[r] = "cancelled"
  <2>1. UNCHANGED <<status, queue>>
    BY <1>2 DEF Settle
  <2>2. \A s : (Coming(s)' <=> Coming(s)) /\ (Out(s)' <=> Out(s)) /\ (HubHas(s)' <=> HubHas(s))
    BY <1>1, <2>1 DEF Coming, Out, Queued, HubHas
  <2>3. ToldOK'
    BY <1>1, <2>1, <2>2, ToldStays
  <2>4. Calls' /\ SuppOK'
    BY <1>1, <2>1 DEF Fates, Calls, SuppOK
  <2>5. \A s \in Runs : Ended(s)' => Ended(s) /\ (Fate(s) => Fate(s)')
    BY <1>1, <2>1, <2>2 DEF Ended, Fate
  <2>6. FinalOK'
    BY <2>5, FinalStays
  <2> QED
    BY <2>3, <2>4, <2>6 DEF Fates
<1>3. CASE status[r] # "cancelled"
  <2>1. status[r] \in Active /\ status' = [status EXCEPT ![r] = "finished"]
    BY <1>1, <1>3 DEF Settle, TypeInv, Shape
  <2>2. /\ status[r] # "finished" /\ manager = "up" /\ row[name[r]] = r
        /\ \A s \in Runs : status'[s] = IF s = r THEN "finished" ELSE status[s]
    BY <1>1, <2>1, Basics DEF Places, Closing, Rows, Active
  <2> DEFINE d == [run |-> r, id |-> name[r], owned |-> row[name[r]] # NoRun]
  <2>3. \/ queue' = queue /\ name[r] \in suppressed \cup watched
        \/ queue' = Append(queue, d) /\ name[r] \notin suppressed \cup watched
    BY <1>3 DEF Settle, Enqueue
  <2>4. d \in Delivery /\ d.run = r
    BY <1>1 DEF Delivery
  <2> HIDE DEF d
  <2>5. \/ Queued' = Queued /\ name[r] \in suppressed \cup watched
        \/ Queued' = Queued \cup {d} /\ name[r] \notin suppressed
    <3>1. queue \in Seq(Delivery)
      BY Basics
    <3> QED
      BY <3>1, <2>3, <2>4, AppendMembers DEF Queued
  <2>6. \A s \in Runs : s # r => (Coming(s)' <=> Coming(s))
    BY <2>4, <2>5, <1>1 DEF Coming
  <2>7. \A s : (Out(s) => Out(s)') /\ (HubHas(s) => HubHas(s)')
    BY <2>5, <1>1 DEF Out, HubHas
  <2>8. told[r] = 0
    BY <2>2, Basics DEF Fates, ToldOK
  <2>9. ToldOK'
    <3>1. SUFFICES ASSUME NEW s \in Runs, told[s] > 0
                   PROVE  /\ status'[s] = "finished"
                          /\ told[s] = 1 \/ (told[s] = 2 /\ s \in restored)
                          /\ Coming(s)' => name[s] \in suppressed \/ (told[s] = 1 /\ s \in restored)
      BY <1>1 DEF ToldOK
    <3>2. s # r
      BY <3>1, <2>8
    <3> QED
      BY <3>1, <3>2, <2>2, <2>6 DEF Fates, ToldOK
  <2>10. Calls'
    BY <1>1, <2>2, Basics DEF Fates, Calls, TypeInv, TypeOK
  <2>11. SuppOK'
    <3>1. SUFFICES ASSUME NEW k \in suppressed, row[k] # NoRun
                   PROVE  \/ status'[row[k]] = "cancelled"
                          \/ told[row[k]] > 0
                          \/ shell.pc # "idle" /\ shell.run = row[k]
      BY <1>1 DEF SuppOK
    <3>2. row[k] \in Runs
      BY <3>1, Basics
    <3> QED
      BY <3>1, <3>2, <1>3, <2>2 DEF Fates, SuppOK
  <2>12. Fate(r)'
    <3>1. CASE name[r] \in suppressed
      <4>1. told[r] > 0 \/ (shell.pc # "idle" /\ shell.run = r)
        BY <3>1, <1>1, <1>3, <2>2, Basics DEF Fates, SuppOK
      <4> QED
        BY <4>1, <1>1 DEF Fate
    <3>2. CASE name[r] \in watched
      <4>1. HubHas(r)
        BY <3>2, <2>2, WatchedHas
      <4> QED
        BY <4>1, <2>7 DEF Fate
    <3>3. CASE name[r] \notin suppressed \cup watched
      <4>1. d \in Queued'
        BY <3>3, <2>5
      <4> QED
        BY <4>1, <3>3, <2>4, <1>1 DEF Fate, Out
    <3> QED
      BY <3>1, <3>2, <3>3
  <2>13. FinalOK'
    <3>1. ASSUME NEW s \in Runs, s # r, Ended(s)' PROVE Fate(s)'
      <4>1. Ended(s)
        BY <3>1, <2>2, <1>1 DEF Ended
      <4> QED
        BY <4>1, <2>7, <1>1 DEF Fates, FinalOK, Fate
    <3> QED
      BY <3>1, <2>12 DEF FinalOK
  <2> QED
    BY <2>9, <2>10, <2>11, <2>13 DEF Fates
<1> QED
  BY <1>2, <1>3

LEMMA EvictTimerFates ==
  ASSUME TypeInv, JobAssumption, ~SlowExit, ~SlowStep, Places, Fates, NEW i \in Ids,
         EvictTimer(i)
  PROVE  Fates'
<1>1. /\ suppressed' = suppressed \ {i} /\ watched' = watched \ {i}
      /\ row' = Evicted({i}) /\ status' = status /\ alive' = alive /\ name' = name
      /\ born' = born /\ queue' = queue /\ flight' = flight /\ inbox' = inbox
      /\ manager' = manager /\ epoch' = epoch /\ session' = session
      /\ hub' = hub /\ shell' = shell
      /\ told' = told /\ dropped' = dropped /\ restored' = restored
      /\ i \in timers
  BY DEF EvictTimer, deliveries, transcript, history
<1>2. \A k \in Ids : row'[k] = IF k = i THEN NoRun ELSE row[k]
  BY <1>1 DEF Evicted
<1>3. row[i] \notin alive
  BY <1>1 DEF EvictTimer, Places, Rows, TypeInv, Shape
<1>4. /\ i \notin watched /\ hub.pc # "reporting"
      /\ \A d \in Queued : d.id # i
      /\ \A f \in flight : f.id # i
      /\ \A e \in inbox : e.id # i
  BY <1>3 DEF EvictTimer, InCall, Queued, Members
<1>5. \A r : (Coming(r)' <=> Coming(r)) /\ (Out(r)' <=> Out(r))
  BY <1>1 DEF Coming, Out, Queued
<1>6. \A r \in Runs : Coming(r) => name[r] # i
  BY <1>4 DEF Coming, Places, QueuedOK, FlightOK, InboxOK
<1>7. ToldOK'
  BY <1>1, <1>5, <1>6, ToldStays
<1>8. Calls'
  BY <1>1 DEF Fates, Calls
<1>9. SuppOK'
  BY <1>1, <1>2, Basics DEF Fates, SuppOK
<1>10. \A r \in Runs : HubHas(r) => HubHas(r)'
  BY <1>1, <1>2, <1>4, Basics DEF HubHas
<1>11. \A r \in Runs : Ended(r)' => Ended(r) /\ (Fate(r) => Fate(r)')
  BY <1>1, <1>5, <1>10 DEF Ended, Fate
<1>12. FinalOK'
  BY <1>11, FinalStays
<1> QED
  BY <1>7, <1>8, <1>9, <1>12 DEF Fates

\* Marking ids whose jobs are over drops their deliveries, and no others that
\* nothing else will tell.
LEMMA AcknowledgeKeeps ==
  ASSUME TypeInv, JobAssumption, ~SlowStep, Places, NEW S, Acknowledge(S),
         flight' = flight, inbox' = inbox, NEW r \in Runs, Ended(r), Out(r), name[r] \notin suppressed
  PROVE  \/ name[r] \in S
         \/ Out(r)' /\ name[r] \notin suppressed'
         \/ HubHas(r) /\ name[r] \in watched
<1>1. /\ suppressed' = suppressed \cup S
      /\ queue' = Without(queue, (suppressed \cup S) \cup watched)
  BY DEF Acknowledge
<1>2. CASE name[r] \notin S
  <2>1. name[r] \notin suppressed \cup S
    BY <1>2
  <2>2. Out(r)' \/ name[r] \in watched
    BY <1>1, <2>1, MarkedDropped
  <2>3. name[r] \in watched => HubHas(r)
    BY OutTracked, WatchedHas
  <2> QED
    BY <1>1, <2>1, <2>2, <2>3
<1> QED
  BY <1>2

LEMMA AcknowledgeComing ==
  ASSUME TypeInv, JobAssumption, Places, NEW S, Acknowledge(S),
         flight' = flight, inbox' = inbox, epoch' = epoch, session' = session
  PROVE  \A r : (Coming(r)' => Coming(r)) /\ (Out(r)' => Out(r))
<1>1. queue' = Without(queue, (suppressed \cup S) \cup watched)
  BY DEF Acknowledge
<1>2. Queued' \subseteq Queued
  BY <1>1, WithoutQueued
<1> QED
  BY <1>2 DEF Coming, Out

LEMMA ExecuteCancelFates ==
  ASSUME TypeInv, JobAssumption, ~SlowStep, Places, Fates, NEW i \in Ids, executeCancel(i)
  PROVE  Fates'
<1>1. /\ status' = Cancelled({i}) /\ Acknowledge({i}) /\ i \in ActiveIds
      /\ row' = row /\ alive' = alive /\ name' = name /\ born' = born /\ watched' = watched
      /\ flight' = flight /\ session' = session /\ epoch' = epoch /\ inbox' = inbox
      /\ hub' = hub /\ shell' = shell /\ told' = told /\ dropped' = dropped
      /\ restored' = restored
  BY DEF executeCancel, transcript, history
<1>2. /\ \A s \in Runs : \/ status'[s] = status[s]
                         \/ status[s] \in Active /\ status'[s] \in Active \cup {"cancelled"}
      /\ status'[row[i]] = "cancelled"
  <2>1. {i} \in SUBSET ActiveIds
    BY <1>1
  <2> QED
    BY <1>1, <2>1, CancelsOnly
<1>3. /\ \A s \in Runs : status'[s] = "finished" <=> status[s] = "finished"
      /\ \A s \in Runs : status[s] = "cancelled" => status'[s] = "cancelled"
  BY <1>2 DEF Active
<1>4. \A r : (Coming(r)' => Coming(r)) /\ (Out(r)' => Out(r))
  BY <1>1, AcknowledgeComing
<1>5. suppressed' = suppressed \cup {i}
  BY <1>1 DEF Acknowledge
<1>6. ToldOK' /\ \A s \in restored' : status'[s] = "finished"
  BY <1>1, <1>3, <1>4, <1>5, ToldStays
<1>7. Calls'
  BY <1>1, <1>6 DEF Fates, Calls
<1>8. SuppOK'
  <2>1. SUFFICES ASSUME NEW k \in suppressed', row[k] # NoRun
                 PROVE  \/ status'[row[k]] = "cancelled"
                        \/ told[row[k]] > 0
                        \/ shell.pc # "idle" /\ shell.run = row[k]
    BY <1>1 DEF SuppOK
  <2>2. CASE k = i
    BY <2>2, <1>2
  <2>3. CASE k # i
    <3>1. k \in suppressed /\ row[k] \in Runs
      BY <2>1, <2>3, <1>5, Basics
    <3> QED
      BY <2>1, <3>1, <1>3 DEF Fates, SuppOK
  <2> QED
    BY <2>2, <2>3
<1>9. FinalOK'
  <2>1. ASSUME NEW r \in Runs, Ended(r)', Fate(r) PROVE Fate(r)'
    <3>1. Ended(r)
      BY <2>1, <1>1, <1>3 DEF Ended
    <3>2. HubHas(r) => HubHas(r)'
      BY <1>1 DEF HubHas
    <3>3. CASE Out(r) /\ name[r] \notin suppressed
      <4>1. name[r] # i
        <5>1. row[name[r]] = r /\ status[r] = "finished"
          BY <3>1, <3>3, OutTracked DEF Ended
        <5> QED
          BY <5>1, <1>1 DEF ActiveIds, Active
      <4>2. (Out(r)' /\ name[r] \notin suppressed') \/ HubHas(r)
        BY <1>1, <3>1, <3>3, <4>1, AcknowledgeKeeps
      <4> QED
        BY <4>2, <3>2, <1>1 DEF Fate
    <3> QED
      BY <3>2, <3>3, <2>1, <1>1 DEF Fate
  <2>2. \A r \in Runs : Ended(r)' => Ended(r) /\ (Fate(r) => Fate(r)')
    BY <2>1, <1>1, <1>3 DEF Ended
  <2> QED
    BY <2>2, FinalStays
<1> QED
  BY <1>6, <1>7, <1>8, <1>9 DEF Fates

\* The report of a hub call: what it says of R it says of the rows' jobs.
LEMMA ReportFates ==
  ASSUME TypeInv, JobAssumption, ~SlowStep, Places, Fates, NEW R \in SUBSET Runs, Report(R),
         \A r \in R : status[r] # "free" /\ row[name[r]] \in {r, NoRun},
         UNCHANGED <<row, status, alive, name, born, flight, session, epoch, inbox, shell,
                     dropped, restored>>,
         \A r \in Runs : Ended(r) /\ HubHas(r) => Fate(r)' \/ r \in R
  PROVE  Fates'
<1> DEFINE settled == {r \in R : status[r] \notin Active}
           S == {name[r] : r \in settled}
<1>1. Acknowledge(S) /\ Tell({r \in settled : status[r] = "finished"})
  BY DEF Report
<1>2. suppressed' = suppressed \cup S
  BY <1>1 DEF Acknowledge
<1>3. /\ \A r \in Runs : told[r] > 0 => told'[r] = told[r]
      /\ \A r \in Runs : told[r] = 0 =>
           told'[r] = IF r \in R /\ status[r] = "finished" THEN 1 ELSE 0
      /\ told \in [Runs -> Nat]
  BY <1>1, Basics DEF Tell, Active
<1>4. \A r \in Runs : r \in R /\ status[r] = "finished" => told'[r] > 0 /\ name[r] \in S
  BY <1>3 DEF Active
<1>5. \A r : (Coming(r)' => Coming(r)) /\ (Out(r)' => Out(r))
  BY <1>1, AcknowledgeComing
<1>6. \A k \in S : row[k] # NoRun =>
        row[k] \in R /\ (status[row[k]] = "cancelled" \/ status[row[k]] = "finished")
  <2>1. SUFFICES ASSUME NEW r \in settled, row[name[r]] # NoRun
                 PROVE  /\ row[name[r]] \in R
                        /\ status[row[name[r]]] \in {"cancelled", "finished"}
    OBVIOUS
  <2>2. row[name[r]] = r /\ status[r] # "free" /\ status[r] \notin Active /\ r \in Runs
    BY <2>1
  <2> QED
    BY <2>1, <2>2, Basics
<1>a. S \subseteq Ids
  BY DEF TypeInv, Shape
<1> HIDE DEF S, settled
<1>7. ToldOK'
  <2>1. SUFFICES ASSUME NEW r \in Runs, told'[r] > 0
                 PROVE  /\ status[r] = "finished"
                        /\ told'[r] = 1 \/ (told'[r] = 2 /\ r \in restored)
                        /\ Coming(r)' => name[r] \in suppressed' \/ (told'[r] = 1 /\ r \in restored)
    BY DEF ToldOK
  <2>2. CASE told[r] > 0
    BY <2>2, <1>2, <1>3, <1>5 DEF Fates, ToldOK
  <2>3. CASE told[r] = 0
    BY <2>1, <2>3, <1>2, <1>3, <1>4
  <2> QED
    BY <2>2, <2>3, <1>3
<1>8. Calls'
  BY DEF Fates, Calls
<1>9. SuppOK'
  <2>1. SUFFICES ASSUME NEW k \in suppressed', row[k] # NoRun
                 PROVE  \/ status[row[k]] = "cancelled"
                        \/ told'[row[k]] > 0
                        \/ shell.pc # "idle" /\ shell.run = row[k]
    BY DEF SuppOK
  <2>2. k \in Ids /\ row[k] \in Runs
    BY <2>1, <1>2, <1>a, Basics
  <2>3. CASE k \in suppressed
    BY <2>1, <2>2, <2>3, <1>3 DEF Fates, SuppOK
  <2>4. CASE k \in S
    BY <2>1, <2>2, <2>4, <1>4, <1>6
  <2> QED
    BY <2>1, <2>3, <2>4, <1>2
<1>10. FinalOK'
  <2>1. ASSUME NEW r \in Runs, Ended(r), Fate(r) PROVE Fate(r)'
    <3>1. status[r] = "finished"
      BY <2>1 DEF Ended
    <3>2. CASE HubHas(r)
      BY <2>1, <3>1, <3>2, <1>4 DEF Fate
    <3>3. CASE Out(r) /\ name[r] \notin suppressed
      <4>1. row[name[r]] = r
        BY <2>1, <3>3, OutTracked
      <4>2. name[r] \in S => told'[r] > 0
        BY <4>1, <3>1, <1>4, <1>6, Basics
      <4>3. \/ name[r] \in S
            \/ Out(r)' /\ name[r] \notin suppressed'
            \/ HubHas(r)
        BY <1>1, <2>1, <3>3, AcknowledgeKeeps
      <4> QED
        BY <4>2, <4>3, <3>2 DEF Fate
    <3>4. told[r] > 0 => told'[r] > 0
      BY <1>3
    <3> QED
      BY <2>1, <3>2, <3>3, <3>4 DEF Fate
  <2>2. \A r \in Runs : Ended(r)' => Ended(r) /\ (Fate(r) => Fate(r)')
    BY <2>1 DEF Ended
  <2> QED
    BY <2>2, FinalStays
<1> QED
  BY <1>7, <1>8, <1>9, <1>10 DEF Fates

LEMMA ExecuteJobsSnapshotFates ==
  ASSUME TypeInv, JobAssumption, ~SlowStep, Places, Fates, NEW S \in SUBSET Ids,
         executeJobsSnapshot(S)
  PROVE  Fates'
<1> DEFINE R == {row[i] : i \in S}
<1>1. Report(R) /\ S \subseteq Tracked
  BY DEF executeJobsSnapshot
<1>2. UNCHANGED <<row, status, alive, name, born, flight, session, epoch, inbox, shell,
                  dropped, restored, hub, watched>>
  BY DEF executeJobsSnapshot, table, transcript
<1>3. R \in SUBSET Runs /\ \A r \in R : status[r] # "free" /\ row[name[r]] \in {r, NoRun}
  BY <1>1, Basics DEF TypeInv, Shape, Tracked
<1> HIDE DEF R
<1>4. \A r \in Runs : HubHas(r) => Fate(r)'
  BY <1>2 DEF HubHas, Fate
<1> QED
  BY <1>1, <1>2, <1>3, <1>4, ReportFates

LEMMA WaitReportFates ==
  ASSUME TypeInv, JobAssumption, ~SlowStep, Places, Fates, WaitReport
  PROVE  Fates'
<1> DEFINE R == {Latest(r) : r \in hub.runs}
<1>1. Report(R)
  BY DEF WaitReport
<1>2. UNCHANGED <<row, status, alive, name, born, flight, session, epoch, inbox, shell,
                  dropped, restored>>
  BY DEF WaitReport, table, transcript
<1>3. R \in SUBSET Runs /\ \A r \in R : status[r] # "free" /\ row[name[r]] \in {r, NoRun}
  <2>1. ASSUME NEW q \in hub.runs
        PROVE  /\ Latest(q) \in Runs /\ status[Latest(q)] # "free"
               /\ row[name[Latest(q)]] \in {Latest(q), NoRun}
    <3>1. q \in Runs /\ status[q] # "free" /\ name[q] \in Ids
      BY Basics DEF TypeInv, Shape
    <3>2. CASE row[name[q]] = NoRun
      BY <3>1, <3>2 DEF Latest
    <3>3. CASE row[name[q]] # NoRun
      BY <3>1, <3>3, Basics DEF Latest, TypeInv, Shape
    <3> QED
      BY <3>2, <3>3
  <2> QED
    BY <2>1
<1>4. ASSUME NEW r \in Runs, HubHas(r) PROVE r \in R
  <2>1. r \in hub.runs /\ row[name[r]] = r /\ r # NoRun
    BY <1>4, Basics DEF HubHas
  <2>2. Latest(r) = r
    BY <2>1 DEF Latest
  <2> QED
    BY <2>1, <2>2
<1> HIDE DEF R
<1> QED
  BY <1>1, <1>2, <1>3, <1>4, ReportFates

\* A foreground call that ends tells what its job has to say; a job that it leaves
\* marked is over.
LEMMA ForegroundEnds ==
  ASSUME TypeInv, JobAssumption, ~SlowStep, Places, Fates, shell.pc # "idle",
         shell' = ShellIdle,
         Tell({shell.run} \cap {r \in Runs : status[r] = "finished"}),
         UNCHANGED <<row, alive, name, born, suppressed, watched, queue, flight, session, epoch,
                     inbox, hub, dropped, restored>>,
         \A s \in Runs : \/ status'[s] = status[s]
                         \/ status[s] \in Active /\ status'[s] \in Active \cup {"cancelled"},
         row[name[shell.run]] = shell.run => status'[shell.run] \notin Active
  PROVE  Fates'
<1> DEFINE r == shell.run
<1>1. r \in Runs /\ name[r] \in Ids /\ status[r] # "free" /\ ~Out(r) /\ r \notin restored
  BY DEF TypeInv, Shape, Places, ShellOK, Fates, Calls
<1>2. /\ \A s \in Runs : s # r => told'[s] = told[s]
      /\ told'[r] = IF status[r] = "finished" /\ told[r] = 0 THEN 1 ELSE told[r]
      /\ told \in [Runs -> Nat]
  BY <1>1, Basics DEF Tell
<1>3. /\ \A s \in Runs : status'[s] = "finished" <=> status[s] = "finished"
      /\ \A s \in Runs : status[s] = "cancelled" => status'[s] = "cancelled"
  BY DEF Active
<1>a. \A s : (Coming(s)' <=> Coming(s)) /\ (Out(s)' <=> Out(s)) /\ (HubHas(s)' <=> HubHas(s))
  BY DEF Coming, Out, Queued, HubHas
<1> HIDE DEF r
<1>4. ToldOK'
  <2>1. SUFFICES ASSUME NEW s \in Runs, told'[s] > 0
                 PROVE  /\ status'[s] = "finished"
                        /\ told'[s] = 1 \/ (told'[s] = 2 /\ s \in restored)
                        /\ Coming(s) => name[s] \in suppressed \/ (told'[s] = 1 /\ s \in restored)
    BY <1>a DEF ToldOK
  <2>2. CASE told[s] > 0
    BY <2>1, <2>2, <1>1, <1>2, <1>3 DEF Fates, ToldOK
  <2>3. CASE told[s] = 0
    <3>1. s = r /\ status[r] = "finished" /\ told'[s] = 1
      BY <2>1, <2>3, <1>2
    <3>2. ~Coming(s)
      BY <3>1, <1>1 DEF Coming, Out
    <3> QED
      BY <3>1, <3>2, <1>3
  <2> QED
    BY <2>2, <2>3, <1>2
<1>5. Calls'
  BY <1>3, Basics DEF Fates, Calls, ShellIdle, TypeInv, TypeOK
<1>6. SuppOK'
  <2>1. SUFFICES ASSUME NEW k \in suppressed, row[k] # NoRun
                 PROVE  \/ status'[row[k]] = "cancelled"
                        \/ told'[row[k]] > 0
    BY DEF SuppOK
  <2>2. k \in Ids /\ row[k] \in Runs /\ name[row[k]] = k
    BY <2>1, Basics DEF TypeInv, Shape
  <2>3. CASE row[k] = r
    <3>1. status'[r] \notin Active /\ status'[r] # "free"
      BY <2>2, <2>3, <1>1 DEF r, Active
    <3>2. status'[r] = "cancelled" \/ status'[r] = "finished"
      BY <3>1, <1>1, Basics DEF Active
    <3> QED
      BY <3>2, <2>3, <1>1, <1>2, <1>3
  <2>4. CASE row[k] # r
    BY <2>1, <2>2, <2>4, <1>2, <1>3 DEF Fates, SuppOK, r
  <2> QED
    BY <2>3, <2>4
<1>7. FinalOK'
  <2>1. ASSUME NEW s \in Runs, Ended(s)', Fate(s) PROVE Fate(s)'
    <3>1. status[s] = "finished"
      BY <2>1, <1>3 DEF Ended
    <3>2. told[s] > 0 \/ s = r => told'[s] > 0
      BY <3>1, <1>2
    <3> QED
      BY <2>1, <3>2, <1>a DEF Fate, r
  <2>2. \A s \in Runs : Ended(s)' => Ended(s) /\ (Fate(s) => Fate(s)')
    BY <2>1, <1>3 DEF Ended
  <2> QED
    BY <2>2, FinalStays
<1> QED
  BY <1>4, <1>5, <1>6, <1>7 DEF Fates

LEMMA ForegroundCompletedFates ==
  ASSUME TypeInv, JobAssumption, ~SlowStep, Places, Fates, ForegroundCompleted
  PROVE  Fates'
<1>1. /\ shell.pc # "idle" /\ shell' = ShellIdle
      /\ Tell({shell.run} \cap {r \in Runs : status[r] = "finished"})
  BY DEF ForegroundCompleted
<1>2. UNCHANGED <<row, alive, name, born, suppressed, watched, queue, flight, session, epoch,
                  inbox, hub, dropped, restored, status>>
  BY DEF ForegroundCompleted, table, marks, deliveries, transcript
<1>3. status'[shell.run] \notin Active
  <2>1. shell.run \in Runs /\ shell.run \notin alive
    BY DEF ForegroundCompleted, Fates, Calls, TypeInv, Shape
  <2> QED
    BY <2>1, <1>2 DEF TypeInv, Shape
<1> QED
  BY <1>1, <1>2, <1>3, ForegroundEnds

LEMMA ForegroundAbortedFates ==
  ASSUME TypeInv, JobAssumption, ~SlowStep, Places, Fates, ForegroundAborted
  PROVE  Fates'
<1> DEFINE mine == {name[shell.run]} \cap ActiveIds
<1>1. /\ shell.pc # "idle" /\ shell' = ShellIdle /\ status' = Cancelled(mine)
      /\ Tell({shell.run} \cap {r \in Runs : status[r] = "finished"})
  BY DEF ForegroundAborted
<1>2. UNCHANGED <<row, alive, name, born, suppressed, watched, queue, flight, session, epoch,
                  inbox, hub, dropped, restored>>
  BY DEF ForegroundAborted, marks, deliveries, transcript
<1>3. mine \in SUBSET ActiveIds
  OBVIOUS
<1>4. /\ shell.run \in Runs /\ name[shell.run] \in Ids
  BY <1>1 DEF TypeInv, Shape
<1>5. row[name[shell.run]] = shell.run /\ status[shell.run] \in Active => name[shell.run] \in mine
  BY <1>4, Basics DEF ActiveIds, Tracked
<1> HIDE DEF mine
<1>6. /\ \A s \in Runs : \/ status'[s] = status[s]
                         \/ status[s] \in Active /\ status'[s] \in Active \cup {"cancelled"}
      /\ \A i \in mine : status'[row[i]] = "cancelled"
  BY <1>1, <1>3, CancelsOnly
<1>7. row[name[shell.run]] = shell.run => status'[shell.run] \notin Active
  <2>1. ASSUME row[name[shell.run]] = shell.run, status[shell.run] \in Active
        PROVE  status'[shell.run] = "cancelled"
    BY <2>1, <1>5, <1>6
  <2> QED
    BY <2>1, <1>4, <1>6 DEF Active
<1> QED
  BY <1>1, <1>2, <1>6, <1>7, ForegroundEnds

LEMMA BackgroundedFates ==
  ASSUME TypeInv, JobAssumption, ~SlowStep, Places, Fates, Backgrounded
  PROVE  Fates'
<1>0. PICK s \in Runs : s = shell.run
  BY DEF Backgrounded, TypeInv, Shape
<1> DEFINE i == name[s]
           again == /\ i \in suppressed /\ i \in FinishedIds
                    /\ \A k \in DOMAIN queue : queue[k].id # i
                    /\ \A f \in flight : f.id # i
           d == [run |-> s, id |-> i, owned |-> row[i] # NoRun]
<1>1. /\ row' = row /\ status' = status /\ alive' = alive /\ name' = name /\ born' = born
      /\ watched' = watched /\ flight' = flight /\ manager' = manager /\ session' = session
      /\ epoch' = epoch /\ inbox' = inbox /\ hub' = hub /\ shell' = ShellIdle
      /\ told' = told /\ suppressed' = suppressed \ {i}
      /\ shell.pc = "running"
  BY <1>0 DEF Backgrounded, table, transcript
<1>2. /\ s \in Runs /\ i \in Ids /\ ~Out(s) /\ s \notin restored
      /\ manager = "up" => i \in suppressed /\ row[i] = s
  BY <1>0, <1>1 DEF TypeInv, Shape, Places, ShellOK, Fates, Calls
<1>3. /\ queue' = IF again THEN (IF name[row[i]] \in watched THEN queue
                                 ELSE Append(queue, [run |-> row[i], id |-> name[row[i]],
                                                     owned |-> row[name[row[i]]] # NoRun]))
                  ELSE queue
      /\ dropped' = dropped \cup {r \in {row[i]} \ {NoRun} :
                       ~again /\ status[r] = "finished" /\ told[r] = 0 /\ ~Outstanding(r)}
      /\ restored' = IF again /\ told[row[i]] > 0 THEN restored \cup {row[i]} ELSE restored
  BY <1>0 DEF Backgrounded, Enqueue
<1>4. again => manager = "up" /\ row[i] = s /\ status[s] = "finished"
  <2>1. again => i \in Ids /\ row[i] # NoRun /\ status[row[i]] = "finished"
    BY <1>2 DEF FinishedIds, Tracked
  <2>2. again => manager = "up"
    BY <2>1 DEF Places, Closing
  <2> QED
    BY <2>1, <2>2, <1>2
<1>5. /\ restored' = IF again /\ told[s] > 0 THEN restored \cup {s} ELSE restored
      /\ again /\ i \notin watched => queue' = Append(queue, d)
      /\ ~again \/ i \in watched => queue' = queue
  BY <1>3, <1>4
<1>6. /\ again /\ i \notin watched => Queued' = Queued \cup {d}
      /\ ~again \/ i \in watched => Queued' = Queued
      /\ d.run = s
  <2>1. again /\ i \notin watched => Members(queue') = Members(queue) \cup {d}
    <3>1. queue \in Seq(Delivery) /\ d \in Delivery
      BY <1>2, Basics DEF Delivery
    <3> HIDE DEF d, again
    <3> QED
      BY <3>1, <1>5, AppendMembers
  <2> QED
    BY <2>1, <1>5 DEF Queued
<1>7. Outstanding(s) <=> Out(s)
  BY DEF Outstanding, Out, Queued, Members
<1>8. manager = "up" /\ ~again /\ status[s] = "finished" /\ told[s] = 0 => s \in dropped'
  BY <1>2, <1>3, <1>7, Basics
<1>9. dropped \subseteq dropped'
  BY <1>3
<1> HIDE DEF d, again
<1>10. \A r \in Runs : r # s => (Coming(r)' <=> Coming(r)) /\ (Out(r)' <=> Out(r))
  BY <1>1, <1>6 DEF Coming, Out
<1>11. \A r : HubHas(r)' <=> HubHas(r)
  BY <1>1 DEF HubHas
<1>12. ToldOK'
  <2>1. SUFFICES ASSUME NEW r \in Runs, told[r] > 0
                 PROVE  /\ status[r] = "finished"
                        /\ told[r] = 1 \/ (told[r] = 2 /\ r \in restored')
                        /\ Coming(r)' => name[r] \in suppressed' \/ (told[r] = 1 /\ r \in restored')
    BY <1>1 DEF ToldOK
  <2>2. /\ status[r] = "finished"
        /\ told[r] = 1 \/ (told[r] = 2 /\ r \in restored)
        /\ Coming(r) => name[r] \in suppressed \/ (told[r] = 1 /\ r \in restored)
        /\ restored \subseteq restored'
    BY <2>1, <1>5 DEF Fates, ToldOK
  <2>3. CASE r = s
    <3>1. ~Coming(s)
      BY <1>2 DEF Coming, Out
    <3>2. Coming(s)' => again
      BY <3>1, <1>1, <1>6 DEF Coming
    <3>3. told[s] = 1
      BY <2>2, <2>3, <1>2
    <3> QED
      BY <2>1, <2>2, <2>3, <3>2, <3>3, <1>5
  <2>4. CASE r # s
    <3>1. Coming(r)' => Coming(r)
      BY <2>4, <1>10
    <3>2. Coming(r) => name[r] # i
      BY <2>4, <1>2, ComingTracked
    <3> QED
      BY <2>2, <3>1, <3>2, <1>1
  <2> QED
    BY <2>3, <2>4
<1>13. Calls'
  <2>1. \A r \in restored' : status[r] = "finished"
    BY <1>4, <1>5 DEF Fates, Calls
  <2> QED
    BY <2>1, <1>1 DEF Fates, Calls, ShellIdle
<1>14. SuppOK'
  <2>1. SUFFICES ASSUME NEW k \in suppressed, k # i, row[k] # NoRun
                 PROVE  status[row[k]] = "cancelled" \/ told[row[k]] > 0
    BY <1>1 DEF SuppOK
  <2>2. k \in Ids
    BY Basics
  <2>3. row[k] # s
    BY <2>1, <2>2 DEF TypeInv, Shape
  <2> QED
    BY <2>1, <2>3, <1>0 DEF Fates, SuppOK
<1>15. FinalOK'
  <2>1. ASSUME NEW r \in Runs, Ended(r), Fate(r) PROVE Fate(r)'
    <3>1. manager = "up"
      BY <2>1 DEF Ended, TypeInv, Shape
    <3>2. CASE r = s
      <4>1. CASE again /\ i \notin watched
        <5>1. Out(s)'
          BY <4>1, <1>6 DEF Out
        <5> QED
          BY <5>1, <3>2, <1>1 DEF Fate
      <4>2. CASE i \in watched
        <5>1. HubHas(s)
          BY <4>2, <3>1, <1>2, WatchedHas
        <5> QED
          BY <5>1, <3>2, <1>11 DEF Fate
      <4>3. CASE ~again
        <5>1. told[s] \in Nat
          BY <1>2, Basics
        <5>2. told[s] > 0 \/ s \in dropped'
          BY <5>1, <4>3, <3>1, <3>2, <2>1, <1>8 DEF Ended
        <5> QED
          BY <5>2, <3>2, <1>1 DEF Fate
      <4> QED
        BY <4>1, <4>2, <4>3
    <3>3. CASE r # s
      BY <2>1, <3>3, <1>0, <1>1, <1>9, <1>10, <1>11 DEF Fate
    <3> QED
      BY <3>2, <3>3
  <2>2. \A r \in Runs : Ended(r)' => Ended(r) /\ (Fate(r) => Fate(r)')
    BY <2>1, <1>1 DEF Ended
  <2> QED
    BY <2>2, FinalStays
<1> QED
  BY <1>12, <1>13, <1>14, <1>15 DEF Fates

\* A delivery that leaves the queue is marked, or held by a hub wait, or on its way.
LEMMA DeliverFates ==
  ASSUME TypeInv, JobAssumption, ~SlowStep, Places, Fates, NEW d \in Queued,
         Queued' = Queued \ {d}, NEW via,
         \/ UNCHANGED flight /\ isDeliverySuppressed(d.id)
         \/ Deliver(d, via),
         UNCHANGED <<table, marks, manager, transcript, hub, shell, history>>
  PROVE  Fates'
<1> DEFINE f == [run |-> d.run, id |-> d.id, via |-> via, epoch |-> epoch]
<1>1. /\ row' = row /\ status' = status /\ alive' = alive /\ name' = name /\ born' = born
      /\ suppressed' = suppressed /\ watched' = watched
      /\ session' = session /\ epoch' = epoch /\ inbox' = inbox
      /\ hub' = hub /\ shell' = shell
      /\ told' = told /\ dropped' = dropped /\ restored' = restored
  BY DEF table, marks, transcript, history
<1>2. /\ status[d.run] = "finished" /\ name[d.run] = d.id /\ d.run \in Runs
      /\ row[d.id] = d.run /\ d.owned
  BY Basics DEF Places, QueuedOK, Delivery
<1>3. /\ flight' = flight \/ flight' = flight \cup {f}
      /\ session = "live" => d.id \in suppressed \cup watched \/ f \in flight'
      /\ f.run = d.run /\ f.epoch = epoch
  BY <1>2 DEF Deliver, isDeliverySuppressed
<1> HIDE DEF f
<1>4. \A r : Coming(r)' => Coming(r)
  BY <1>1, <1>3 DEF Coming
<1>5. ToldOK'
  BY <1>1, <1>4, ToldStays
<1>6. Calls' /\ SuppOK'
  BY <1>1 DEF Fates, Calls, SuppOK
<1>7. FinalOK'
  <2>1. ASSUME NEW r \in Runs, Ended(r), Fate(r) PROVE Fate(r)'
    <3>1. HubHas(r) => HubHas(r)'
      BY <1>1 DEF HubHas
    <3>2. CASE Out(r) /\ name[r] \notin suppressed
      <4>1. Out(r)' \/ r = d.run
        BY <3>2, <1>1, <1>3 DEF Out
      <4>2. CASE r = d.run
        <5>1. f \in flight' \/ d.id \in watched
          BY <4>2, <3>2, <2>1, <1>2, <1>3 DEF Ended
        <5>2. d.id \in watched => HubHas(r)
          BY <4>2, <1>2, WatchedHas
        <5> QED
          BY <5>1, <5>2, <4>2, <3>1, <3>2, <1>1, <1>3 DEF Fate, Out
      <4> QED
        BY <4>1, <4>2, <3>2, <1>1 DEF Fate
    <3> QED
      BY <2>1, <3>1, <3>2, <1>1 DEF Fate
  <2>2. \A r \in Runs : Ended(r)' => Ended(r) /\ (Fate(r) => Fate(r)')
    BY <2>1, <1>1 DEF Ended
  <2> QED
    BY <2>2, FinalStays
<1> QED
  BY <1>5, <1>6, <1>7 DEF Fates

LEMMA RunDeliveryLoopFates ==
  ASSUME TypeInv, JobAssumption, ~SlowStep, Places, Fates, RunDeliveryLoop
  PROVE  Fates'
<1>1. queue \in Seq(Delivery) /\ Distinct(queue) /\ queue # <<>> /\ queue' = Tail(queue)
  BY Basics DEF Places, Unique, RunDeliveryLoop
<1>2. Head(queue) \in Queued /\ Queued' = Queued \ {Head(queue)}
  BY <1>1, TailMembers DEF Queued
<1>3. \/ UNCHANGED flight /\ isDeliverySuppressed(Head(queue).id)
      \/ Deliver(Head(queue), "loop")
  BY DEF RunDeliveryLoop
<1>4. UNCHANGED <<table, marks, manager, transcript, hub, shell, history>>
  BY DEF RunDeliveryLoop
<1> QED
  BY <1>2, <1>3, <1>4, DeliverFates

LEMMA DeliverNextFilteredFates ==
  ASSUME TypeInv, JobAssumption, ~SlowStep, Places, Fates, DeliverNextFiltered
  PROVE  Fates'
<1>1. PICK k \in DOMAIN queue : queue' = RemoveAt(queue, k) /\ Deliver(queue[k], "drain")
  BY DEF DeliverNextFiltered
<1>2. queue \in Seq(Delivery) /\ Distinct(queue)
  BY Basics DEF Places, Unique
<1>3. Members(RemoveAt(queue, k)) = Members(queue) \ {queue[k]}
  BY <1>2, RemoveMembers
<1>4. queue[k] \in Queued /\ Queued' = Queued \ {queue[k]}
  BY <1>1, <1>3 DEF Queued, Members
<1>5. UNCHANGED <<table, marks, manager, transcript, hub, shell, history>>
  BY DEF DeliverNextFiltered
<1> QED
  BY <1>1, <1>4, <1>5, DeliverFates

LEMMA SinkDoneFates ==
  ASSUME TypeInv, JobAssumption, ~SlowStep, Places, Fates, NEW f \in flight, SinkDone(f)
  PROVE  Fates'
<1> DEFINE e == [run |-> f.run, id |-> f.id, epoch |-> f.epoch]
<1>1. /\ row' = row /\ status' = status /\ alive' = alive /\ name' = name /\ born' = born
      /\ suppressed' = suppressed /\ watched' = watched /\ queue' = queue
      /\ session' = session /\ epoch' = epoch
      /\ hub' = hub /\ shell' = shell /\ flight' = flight \ {f}
      /\ inbox' = IF session = "live" /\ f.epoch = epoch /\ ~isDeliverySuppressed(f.id)
                    THEN inbox \cup {e} ELSE inbox
      /\ told' = told /\ dropped' = dropped /\ restored' = restored
  BY DEF SinkDone, table, marks, history
<1>2. e.run = f.run
  OBVIOUS
<1> HIDE DEF e
<1>3. \A r : Coming(r)' => Coming(r)
  BY <1>1, <1>2 DEF Coming, Queued
<1>4. ToldOK'
  BY <1>1, <1>3, ToldStays
<1>5. Calls' /\ SuppOK'
  BY <1>1 DEF Fates, Calls, SuppOK
<1>6. FinalOK'
  <2>1. ASSUME NEW r \in Runs, Ended(r), Fate(r) PROVE Fate(r)'
    <3>1. HubHas(r) => HubHas(r)'
      BY <1>1 DEF HubHas
    <3>2. CASE Out(r) /\ name[r] \notin suppressed
      <4>1. Out(r)' \/ r = f.run
        BY <3>2, <1>1 DEF Out, Queued
      <4>2. CASE r = f.run
        <5>1. name[r] = f.id /\ f.epoch = epoch /\ row[f.id] = r
          BY <4>2, <2>1, <3>2, OutTracked DEF Ended, Places, FlightOK
        <5>2. e \in inbox' \/ f.id \in watched
          BY <5>1, <3>2, <2>1, <1>1 DEF Ended, isDeliverySuppressed
        <5>3. f.id \in watched => HubHas(r)
          BY <5>1, WatchedHas
        <5> QED
          BY <5>2, <5>3, <4>2, <3>1, <3>2, <1>1, <1>2 DEF Fate, Out
      <4> QED
        BY <4>1, <4>2, <3>2, <1>1 DEF Fate
    <3> QED
      BY <2>1, <3>1, <3>2, <1>1 DEF Fate
  <2>2. \A r \in Runs : Ended(r)' => Ended(r) /\ (Fate(r) => Fate(r)')
    BY <2>1, <1>1 DEF Ended
  <2> QED
    BY <2>2, FinalStays
<1> QED
  BY <1>4, <1>5, <1>6 DEF Fates

\* What a turn takes from the follow-ups of one job: its fresh one, if it has it.
LEMMA InjectTells ==
  ASSUME TypeInv, JobAssumption, Places, Inject, NEW r \in Runs
  PROVE  \/ told'[r] = told[r] /\ \A e \in inbox : e.run = r => ~Fresh(e)
         \/ told'[r] = told[r] + 1 /\ \E e \in inbox : e.run = r /\ Fresh(e)
<1> DEFINE mine == {e \in inbox : e.run = r /\ Fresh(e)}
<1>1. told'[r] = told[r] + Cardinality(mine) /\ told[r] \in Nat
  BY Basics DEF Inject
<1>2. CASE mine = {}
  <2>1. Cardinality(mine) = 0
    BY <1>2, FS_EmptySet
  <2>2. \A e \in inbox : e.run = r => ~Fresh(e)
    BY <1>2
  <2> HIDE DEF mine
  <2> QED
    BY <1>1, <2>1, <2>2
<1>3. CASE mine # {}
  <2>1. PICK e \in mine : TRUE
    BY <1>3
  <2>2. mine = {e}
    <3>1. \A g \in mine : g = e
      BY <2>1 DEF Places, Unique
    <3> QED
      BY <2>1, <3>1
  <2>3. Cardinality(mine) = 1
    <3>1. Cardinality({e}) = 1
      BY FS_Singleton
    <3> HIDE DEF mine
    <3> QED
      BY <2>2, <3>1
  <2>4. e \in inbox /\ e.run = r /\ Fresh(e)
    BY <2>1
  <2> HIDE DEF mine
  <2> QED
    BY <1>1, <2>3, <2>4
<1> QED
  BY <1>2, <1>3

LEMMA InjectFates ==
  ASSUME TypeInv, JobAssumption, Places, Fates, Inject
  PROVE  Fates'
<1>1. /\ row' = row /\ status' = status /\ alive' = alive /\ name' = name /\ born' = born
      /\ suppressed' = suppressed /\ watched' = watched /\ queue' = queue /\ flight' = flight
      /\ session' = session /\ epoch' = epoch /\ inbox' = {}
      /\ hub' = hub /\ shell' = shell /\ dropped' = dropped /\ restored' = restored
      /\ hub.pc = "idle"
  BY DEF Inject, table, marks, deliveries
<1>2. watched = {}
  BY <1>1 DEF Places, HubOK
<1>3. \A r \in Runs : told[r] \in Nat /\ (told'[r] = told[r] \/ told'[r] = told[r] + 1)
  BY InjectTells, Basics
<1>4. \A r : (Coming(r)' => Coming(r)) /\ (Out(r)' <=> Out(r)' /\ Out(r))
  BY <1>1 DEF Coming, Out, Queued
<1>5. ToldOK'
  <2>1. SUFFICES ASSUME NEW r \in Runs, told'[r] > 0
                 PROVE  /\ status[r] = "finished"
                        /\ told'[r] = 1 \/ (told'[r] = 2 /\ r \in restored)
                        /\ Coming(r)' => name[r] \in suppressed \/ (told'[r] = 1 /\ r \in restored)
    BY <1>1 DEF ToldOK
  <2>2. told[r] > 0 => /\ status[r] = "finished"
                       /\ told[r] = 1 \/ (told[r] = 2 /\ r \in restored)
                       /\ Coming(r) => name[r] \in suppressed \/ (told[r] = 1 /\ r \in restored)
    BY DEF Fates, ToldOK
  <2>3. CASE told'[r] = told[r]
    BY <2>1, <2>2, <2>3, <1>4
  <2>4. CASE told'[r] # told[r]
    <3>1. told'[r] = told[r] + 1
      BY <2>4, <1>3
    <3>2. PICK e \in inbox : e.run = r /\ Fresh(e)
      BY <2>4, <3>1, InjectTells, <1>3
    <3>3. status[r] = "finished" /\ name[r] = e.id
      BY <3>2 DEF Places, InboxOK
    <3>4. Coming(r) /\ name[r] \notin suppressed
      BY <3>2, <3>3 DEF Coming, Fresh, isDeliverySuppressed
    <3>5. ~Coming(r)'
      BY <3>2, <1>1 DEF Coming, Queued, Places, Unique
    <3>6. told[r] = 0 \/ (told[r] = 1 /\ r \in restored)
      BY <2>2, <3>4, <1>3
    <3> QED
      BY <3>1, <3>3, <3>5, <3>6
  <2> QED
    BY <2>3, <2>4
<1>6. Calls'
  BY <1>1 DEF Fates, Calls
<1>7. SuppOK'
  <2>1. \A k \in suppressed : row[k] # NoRun => row[k] \in Runs
    BY Basics
  <2> QED
    BY <2>1, <1>1, <1>3 DEF Fates, SuppOK
<1>8. FinalOK'
  <2>1. ASSUME NEW r \in Runs, Ended(r), Fate(r) PROVE Fate(r)'
    <3>1. told[r] > 0 => told'[r] > 0
      BY <1>3
    <3>2. HubHas(r) => HubHas(r)'
      BY <1>1 DEF HubHas
    <3>3. CASE Out(r) /\ name[r] \notin suppressed
      <4>1. Out(r)' \/ \E e \in inbox : e.run = r
        BY <3>3, <1>1 DEF Out, Queued
      <4>2. ASSUME NEW e \in inbox, e.run = r PROVE told'[r] > 0
        <5>1. Fresh(e)
          BY <4>2, <3>3, <1>2 DEF Fresh, isDeliverySuppressed, Places, InboxOK
        <5> QED
          BY <5>1, <4>2, <1>3, InjectTells
      <4> QED
        BY <4>1, <4>2, <3>3, <1>1 DEF Fate
    <3> QED
      BY <2>1, <3>1, <3>2, <3>3, <1>1 DEF Fate
  <2>2. \A r \in Runs : Ended(r)' => Ended(r) /\ (Fate(r) => Fate(r)')
    BY <2>1, <1>1 DEF Ended
  <2> QED
    BY <2>2, FinalStays
<1> QED
  BY <1>5, <1>6, <1>7, <1>8 DEF Fates

LEMMA NewSessionFates ==
  ASSUME TypeInv, JobAssumption, Places, Fates, newSession
  PROVE  Fates'
<1>1. /\ CancelOwnAsyncJobs /\ epoch' = epoch + 1 /\ shell.pc = "idle"
      /\ suppressed' = suppressed \ FinishedIds
      /\ alive' = alive /\ name' = name /\ born' = born /\ flight' = flight
      /\ shell' = shell /\ told' = told /\ restored' = restored
  BY DEF newSession, CancelOwnAsyncJobs, history
<1>2. manager = "up"
  BY DEF newSession, TypeInv, Shape
<1>3. /\ \A s \in Runs : /\ status'[s] \notin Active
                         /\ status[s] = "finished" => status'[s] = "finished"
      /\ \A k \in Ids : row'[k] # NoRun => row'[k] = row[k] /\ status'[row[k]] = "cancelled"
      /\ Queued' = {} /\ inbox' = {}
  BY <1>1, <1>2, CancelOwnFacts
<1>4. epoch \in Nat /\ suppressed \subseteq Ids /\ born \in [Runs -> Epochs]
      /\ \A f \in flight : f.epoch <= epoch /\ f.epoch \in Nat
  BY Basics DEF Places, FlightOK, Held, Epochs
<1>5. \A r : ~Coming(r)'
  <2>1. \A f \in flight : f.epoch # epoch + 1
    BY <1>4
  <2> QED
    BY <2>1, <1>1, <1>3 DEF Coming
<1>6. ToldOK' /\ \A r \in restored' : status'[r] = "finished"
  BY <1>1, <1>3, <1>5, ToldStays
<1>7. \A r \in Runs : born[r] <= epoch /\ born[r] \in Nat
  BY <1>4 DEF Fates, Calls, Epochs
<1>8. Calls'
  <2>1. \A r \in Runs : born[r] <= epoch + 1
    BY <1>4, <1>7
  <2> QED
    BY <2>1, <1>1, <1>6 DEF Fates, Calls
<1>9. SuppOK'
  BY <1>1, <1>3, <1>4 DEF SuppOK
<1>10. FinalOK'
  <2>1. \A r \in Runs : born[r] # epoch + 1
    BY <1>4, <1>7
  <2> QED
    BY <2>1, <1>1 DEF FinalOK, Ended
<1> QED
  BY <1>6, <1>8, <1>9, <1>10 DEF Fates

LEMMA BeginDisposeFates ==
  ASSUME TypeInv, JobAssumption, Fates, beginDispose
  PROVE  Fates'
<1>1. /\ UNCHANGED <<row, status, alive, name, born, suppressed, queue, flight, epoch, shell,
                     told, dropped, restored>>
      /\ session' = "disposing" /\ inbox' = {}
  BY DEF beginDispose, table, marks, deliveries, history
<1>2. \A r : Coming(r)' => Coming(r)
  BY <1>1 DEF Coming, Queued
<1>3. ToldOK'
  BY <1>1, <1>2, ToldStays
<1>4. Calls' /\ SuppOK' /\ FinalOK'
  BY <1>1 DEF Fates, Calls, SuppOK, FinalOK, Ended
<1> QED
  BY <1>3, <1>4 DEF Fates

LEMMA DisposeOwnedAsyncJobsFates ==
  ASSUME TypeInv, JobAssumption, Places, Fates, disposeOwnedAsyncJobs
  PROVE  Fates'
<1>1. /\ CancelOwnAsyncJobs /\ epoch' = epoch /\ session' = "closed"
      /\ suppressed' = suppressed \ FinishedIds
      /\ alive' = alive /\ name' = name /\ born' = born /\ flight' = flight
      /\ shell' = shell /\ told' = told /\ restored' = restored
  BY DEF disposeOwnedAsyncJobs, CancelOwnAsyncJobs, history
<1>2. manager = "up"
  BY DEF disposeOwnedAsyncJobs, TypeInv, Shape
<1>3. /\ \A s \in Runs : /\ status'[s] \notin Active
                         /\ status[s] = "finished" => status'[s] = "finished"
      /\ \A k \in Ids : row'[k] # NoRun => row'[k] = row[k] /\ status'[row[k]] = "cancelled"
      /\ Queued' = {} /\ inbox' = {}
  BY <1>1, <1>2, CancelOwnFacts
<1>4. \A r : ~Coming(r)'
  BY <1>1, <1>3 DEF Coming
<1>5. ToldOK' /\ \A r \in restored' : status'[r] = "finished"
  BY <1>1, <1>3, <1>4, ToldStays
<1>6. Calls'
  BY <1>1, <1>5 DEF Fates, Calls
<1>7. SuppOK'
  BY <1>1, <1>3, Basics DEF SuppOK
<1>8. FinalOK'
  BY <1>1 DEF FinalOK, Ended
<1> QED
  BY <1>5, <1>6, <1>7, <1>8 DEF Fates

LEMMA DisposedFates ==
  ASSUME TypeInv, JobAssumption, Places, Fates, disposed
  PROVE  Fates'
<1>1. /\ UNCHANGED <<status, alive, name, born, session, epoch, inbox, shell, told, restored>>
      /\ suppressed' = {} /\ queue' = <<>> /\ flight' = {} /\ manager = "closing"
  BY DEF disposed, transcript, history
<1>2. session # "live" /\ inbox = {}
  BY <1>1 DEF TypeInv, Shape
<1>3. \A r : ~Coming(r)'
  BY <1>1, <1>2 DEF Coming, Queued, Members
<1>4. ToldOK'
  BY <1>1, <1>3, ToldStays
<1>5. Calls' /\ SuppOK' /\ FinalOK'
  BY <1>1, <1>2 DEF Fates, Calls, SuppOK, FinalOK, Ended
<1> QED
  BY <1>4, <1>5 DEF Fates

LEMMA StepFates ==
  ASSUME TypeInv, JobAssumption, ~SlowExit, ~SlowStep, Places, Fates, [Next]_vars
  PROVE  Fates'
<1>1. ASSUME NEW r \in Runs, NEW i \in Ids, register(r, i) \/ StartForeground(r, i)
      PROVE  Fates'
  BY <1>1, registerFates, StartForegroundFates
<1>2. ASSUME NEW r \in Runs, markRunning(r) \/ Settle(r)
      PROVE  Fates'
  BY <1>2, MarkRunningFates, SettleFates
<1>3. ASSUME NEW i \in Ids, EvictTimer(i) \/ executeCancel(i)
      PROVE  Fates'
  BY <1>3, EvictTimerFates, ExecuteCancelFates
<1>4. ASSUME RunDeliveryLoop \/ DeliverNextFiltered \/ (\E f \in flight : SinkDone(f)) \/ Inject
      PROVE  Fates'
  BY <1>4, RunDeliveryLoopFates, DeliverNextFilteredFates, SinkDoneFates, InjectFates
<1>5. ASSUME NEW S \in SUBSET Ids, executeJobsSnapshot(S) \/ WaitForJobs(S)
      PROVE  Fates'
  BY <1>5, ExecuteJobsSnapshotFates, WaitForJobsFates
<1>6. ASSUME WaitRaced \/ WaitMessage \/ WaitUnwatch \/ WaitReport
      PROVE  Fates'
  BY <1>6, WaitRacedFates, WaitUnwatchFates, WaitReportFates
<1>7. ASSUME NEW o \in {"completed", "running", "aborted"}, ForegroundRaced(o)
      PROVE  Fates'
  BY <1>7, ForegroundRacedFates
<1>8. ASSUME ForegroundCompleted \/ ForegroundAborted \/ Backgrounded
      PROVE  Fates'
  BY <1>8, ForegroundCompletedFates, ForegroundAbortedFates, BackgroundedFates
<1>9. ASSUME (\E b \in BOOLEAN : WaitOwner(b)) \/ WaitOwnerRound
      PROVE  Fates'
  BY <1>9, WaitOwnerFates, WaitOwnerRoundFates
<1>10. ASSUME newSession \/ beginDispose \/ disposeOwnedAsyncJobs \/ disposed
       PROVE  Fates'
  BY <1>10, NewSessionFates, BeginDisposeFates, DisposeOwnedAsyncJobsFates, DisposedFates
<1>11. ASSUME UNCHANGED vars PROVE Fates'
  BY <1>11 DEF vars, Fates, Calls, SuppOK, ToldOK, FinalOK, Coming, Ended, Fate, Out, HubHas,
               Queued
<1> QED
  BY <1>1, <1>2, <1>3, <1>4, <1>5, <1>6, <1>7, <1>8, <1>9, <1>10, <1>11 DEF Next

LEMMA FatesHold ==
  ASSUME ~SlowExit, ~SlowStep
  PROVE  Spec => [](TypeInv /\ Places /\ Fates)
<1>1. Init => TypeInv /\ Places /\ Fates
  BY InitTyped, InitPlaces, InitFates, JobAssumption
<1>2. TypeInv /\ Places /\ Fates /\ [Next]_vars => (TypeInv /\ Places /\ Fates)'
  BY StepTyped, StepPlaces, StepFates, JobAssumption
<1> QED
  BY <1>1, <1>2, PTL DEF Spec

\* The result of a job reaches the transcript once, or a second time when a hub call
\* had reported it in the moment in which its foreground call let it go
\* (job-manager.ts:401).
THEOREM ReportedOnceHolds == ASSUME ~SlowExit, ~SlowStep PROVE Spec => []ReportedOnce
<1>1. ASSUME TypeInv, Fates PROVE ReportedOnce
  <2>1. SUFFICES ASSUME NEW r \in Runs
                 PROVE  told[r] <= (IF r \in restored THEN 2 ELSE 1)
    BY DEF ReportedOnce
  <2>2. told[r] \in Nat
    BY <1>1 DEF TypeInv, TypeOK
  <2>3. told[r] > 0 => told[r] = 1 \/ (told[r] = 2 /\ r \in restored)
    BY <1>1 DEF Fates, ToldOK
  <2> QED
    BY <2>2, <2>3
<1>2. Spec => [](TypeInv /\ Places /\ Fates)
  BY FatesHold
<1>3. TypeInv /\ Places /\ Fates => ReportedOnce
  BY <1>1
<1> QED
  BY <1>2, <1>3, PTL

\* A session without a pending wake has no active job, and every result of its
\* transcript was told or is one that nothing will tell (agent-session.ts:1908,
\* task/executor.ts:2018).
THEOREM QuiescenceHolds == ASSUME ~SlowExit, ~SlowStep PROVE Spec => []QuiescenceIsFinal
<1>1. ASSUME TypeInv, Places, Fates PROVE QuiescenceIsFinal
  <2>1. SUFFICES ASSUME session = "live", hub.pc = "idle", shell.pc = "idle", ~PendingWake,
                        NEW r \in Runs, born[r] = epoch
                 PROVE  /\ status[r] \notin Active
                        /\ status[r] = "finished" => told[r] > 0 \/ r \in dropped
    BY DEF QuiescenceIsFinal
  <2>2. watched = {} /\ hub.runs = {} /\ manager = "up"
    BY <1>1, <2>1 DEF Places, HubOK, TypeInv, Shape
  <2>3. status[r] \notin Active
    <3>1. SUFFICES ASSUME status[r] \in Active PROVE FALSE
      OBVIOUS
    <3>2. name[r] \in Ids /\ row[name[r]] = r /\ r # NoRun
      BY <1>1, <2>2, <3>1, Basics, JobAssumption DEF TypeInv, Shape, Places, Rows, Active
    <3>3. name[r] \in ActiveIds
      BY <3>1, <3>2 DEF ActiveIds, Tracked
    <3>4. name[r] \in suppressed
      BY <2>1, <2>2, <3>3 DEF PendingWake, isDeliverySuppressed
    <3>5. status[r] = "cancelled" \/ told[r] > 0
      BY <1>1, <2>1, <3>2, <3>4 DEF Fates, SuppOK
    <3> QED
      BY <1>1, <3>1, <3>5 DEF Fates, ToldOK, Active
  <2>4. ASSUME status[r] = "finished" PROVE told[r] > 0 \/ r \in dropped
    <3>1. Fate(r)
      BY <1>1, <2>1, <2>4 DEF Fates, FinalOK, Ended
    <3>2. ~HubHas(r)
      BY <2>2 DEF HubHas
    <3>3. ~(Out(r) /\ name[r] \notin suppressed)
      <4>1. SUFFICES ASSUME Out(r), name[r] \notin suppressed PROVE PendingWake
        BY <2>1
      <4>2. ASSUME NEW d \in Queued, d.run = r PROVE PendingWake
        <5>1. d.owned /\ d.id = name[r]
          BY <1>1, <4>2 DEF Places, QueuedOK
        <5> QED
          BY <4>1, <4>2, <5>1, <2>2 DEF Queued, Members, PendingWake, isDeliverySuppressed
      <4>3. ASSUME NEW f \in flight, f.run = r PROVE PendingWake
        <5>1. f.id = name[r]
          BY <1>1, <4>3 DEF Places, FlightOK
        <5> QED
          BY <4>1, <4>3, <5>1, <2>2 DEF PendingWake, isDeliverySuppressed
      <4>4. inbox # {} => PendingWake
        BY DEF PendingWake
      <4> QED
        BY <4>1, <4>2, <4>3, <4>4 DEF Out
    <3> QED
      BY <2>1, <3>1, <3>2, <3>3 DEF Fate
  <2> QED
    BY <2>3, <2>4
<1>2. Spec => [](TypeInv /\ Places /\ Fates)
  BY FatesHold
<1>3. TypeInv /\ Places /\ Fates => QuiescenceIsFinal
  BY <1>1
<1> QED
  BY <1>2, <1>3, PTL

=============================================================================
