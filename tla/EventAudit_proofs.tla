------------------------- MODULE EventAudit_proofs --------------------------
(***************************************************************************)
(* For any number of requests, audits and faults: as long as only the      *)
(* event service commits to its tenant's audit chain, no audited request   *)
(* is refused.                                                             *)
(***************************************************************************)
EXTENDS EventAudit, SequenceTheorems, WellFoundedInduction, TLAPS

-----------------------------------------------------------------------------
(* Evidence: sequences and their beginnings.                               *)

(* The beginning of length k.                                              *)
LEMMA Beginning ==
    ASSUME NEW t \in Seq(Audit), NEW k \in 0 .. Len(t)
    PROVE  /\ SubSeq(t, 1, k) \in Seq(Audit)
           /\ Len(SubSeq(t, 1, k)) = k
           /\ \A i \in 1 .. k : SubSeq(t, 1, k)[i] = t[i]
           /\ k > 0 => SubSeq(t, 1, k) \in Evidence /\ Own(SubSeq(t, 1, k)) = t[k]
           /\ k = 0 => SubSeq(t, 1, k) = <<>>
<1>1. \A i \in 1 .. k : t[i] \in Audit
  OBVIOUS
<1>2. /\ SubSeq(t, 1, k) \in Seq(Audit)
      /\ Len(SubSeq(t, 1, k)) = k
      /\ \A i \in 1 .. k : SubSeq(t, 1, k)[i] = t[i]
  BY <1>1, SubSeqProperties
<1>3. k = 0 => SubSeq(t, 1, k) = <<>>
  BY SubSeqEmpty
<1> QED
  BY <1>2, <1>3 DEF Evidence, Own

(* A beginning of a beginning.                                             *)
LEMMA BeginningOfBeginning ==
    ASSUME NEW t \in Seq(Audit), NEW k \in 1 .. Len(t), NEW j \in 1 .. k
    PROVE  SubSeq(SubSeq(t, 1, k), 1, j) = SubSeq(t, 1, j)
<1>1. 1 \in 1 .. Len(t) /\ 1 \in 1 .. k - 1 + 1 /\ j \in 1 .. k - 1 + 1
  OBVIOUS
<1>2. SubSeq(SubSeq(t, 1, k), 1, j) = SubSeq(t, 1 + 1 - 1, 1 + j - 1)
  BY <1>1, SubSeqOfSubSeq, Beginning
<1> QED
  BY <1>2

(* What one chain up to t consists of, and what a further audit adds.      *)
LEMMA UpToEvidence ==
    ASSUME NEW t \in Seq(Audit)
    PROVE  /\ UpTo(t) \subseteq Evidence
           /\ \A r \in UpTo(t) : Len(r) <= Len(t)
           /\ t # <<>> => t \in UpTo(t)
           /\ UpTo(t) = {} <=> t = <<>>
<1>1. ASSUME NEW k \in 1 .. Len(t)
      PROVE  SubSeq(t, 1, k) \in Evidence /\ Len(SubSeq(t, 1, k)) <= Len(t)
  <2>1. Len(t) \in Nat /\ k \in 0 .. Len(t) /\ k > 0
    OBVIOUS
  <2> QED
    BY <2>1, Beginning
<1>2. t # <<>> => t \in UpTo(t)
  BY SubSeqFull, EmptySeq DEF UpTo
<1>3. t = <<>> => UpTo(t) = {}
  BY EmptySeq DEF UpTo
<1> QED
  BY <1>1, <1>2, <1>3 DEF UpTo

LEMMA UpToAppend ==
    ASSUME NEW t \in Seq(Audit), NEW a \in Audit
    PROVE  UpTo(Append(t, a)) = UpTo(t) \cup {Append(t, a)}
<1> DEFINE u == Append(t, a)
<1>1. /\ u \in Seq(Audit) /\ Len(u) = Len(t) + 1
      /\ \A i \in 1 .. Len(t) : u[i] = t[i]
  BY AppendProperties
<1>2. SubSeq(u, 1, Len(t) + 1) = u
  BY <1>1, SubSeqFull
<1>3. ASSUME NEW k \in 1 .. Len(t)
      PROVE  SubSeq(u, 1, k) = SubSeq(t, 1, k)
  <2>1. k \in 0 .. Len(u) /\ k \in 0 .. Len(t)
    BY <1>1
  <2>2. /\ SubSeq(u, 1, k) \in Seq(Audit) /\ Len(SubSeq(u, 1, k)) = k
        /\ SubSeq(t, 1, k) \in Seq(Audit) /\ Len(SubSeq(t, 1, k)) = k
        /\ \A i \in 1 .. k : SubSeq(u, 1, k)[i] = u[i]
        /\ \A i \in 1 .. k : SubSeq(t, 1, k)[i] = t[i]
    BY <1>1, <2>1, Beginning
  <2> HIDE DEF u
  <2>3. \A i \in 1 .. k : SubSeq(u, 1, k)[i] = SubSeq(t, 1, k)[i]
    BY <2>2, <1>1
  <2> QED
    BY <2>2, <2>3, SeqEqual
<1> HIDE DEF u
<1>4. Len(t) \in Nat /\ 1 .. Len(u) = (1 .. Len(t)) \cup {Len(t) + 1}
  BY <1>1
<1>5. UpTo(u) = UpTo(t) \cup {u}
  BY <1>2, <1>3, <1>4 DEF UpTo
<1> QED
  BY <1>5 DEF u

-----------------------------------------------------------------------------
(* The assessment of one complete chain.                                   *)

OwnUpTo(t, k) == \A i \in 1 .. k : t[i].by = "events"

(* The paths through the valid records of one chain are the beginnings     *)
(* without another service's audit.                                        *)
LEMMA Paths ==
    ASSUME NEW t \in Seq(Audit)
    PROVE  {r \in Valid(UpTo(t)) : UpTo(r) \subseteq Valid(UpTo(t))} \cup {<<>>}
             = {SubSeq(t, 1, k) : k \in {j \in 0 .. Len(t) : OwnUpTo(t, j)}}
<1> DEFINE P == {r \in Valid(UpTo(t)) : UpTo(r) \subseteq Valid(UpTo(t))} \cup {<<>>}
           Q == {SubSeq(t, 1, k) : k \in {j \in 0 .. Len(t) : OwnUpTo(t, j)}}
<1>1. ASSUME NEW k \in 1 .. Len(t)
      PROVE  SubSeq(t, 1, k) \in Valid(UpTo(t)) <=> t[k].by = "events"
  BY Beginning DEF Valid, UpTo
<1>2. ASSUME NEW k \in 1 .. Len(t)
      PROVE  UpTo(SubSeq(t, 1, k)) = {SubSeq(t, 1, j) : j \in 1 .. k}
  BY Beginning, BeginningOfBeginning DEF UpTo
<1>3. ASSUME NEW k \in 1 .. Len(t)
      PROVE  UpTo(SubSeq(t, 1, k)) \subseteq Valid(UpTo(t)) <=> OwnUpTo(t, k)
  <2>1. \A j \in 1 .. k : j \in 1 .. Len(t)
    OBVIOUS
  <2>2. UpTo(SubSeq(t, 1, k)) \subseteq Valid(UpTo(t))
          <=> \A j \in 1 .. k : SubSeq(t, 1, j) \in Valid(UpTo(t))
    <3> DEFINE U == UpTo(SubSeq(t, 1, k))
    <3>1. /\ \A j \in 1 .. k : SubSeq(t, 1, j) \in U
          /\ \A r \in U : \E j \in 1 .. k : r = SubSeq(t, 1, j)
      BY <1>2, Zenon
    <3> HIDE DEF U
    <3>2. U \subseteq Valid(UpTo(t))
            <=> \A j \in 1 .. k : SubSeq(t, 1, j) \in Valid(UpTo(t))
      BY <3>1, Zenon
    <3> QED
      BY <3>2 DEF U
  <2>3. (\A j \in 1 .. k : SubSeq(t, 1, j) \in Valid(UpTo(t)))
          <=> \A j \in 1 .. k : t[j].by = "events"
    BY <1>1, <2>1, Zenon
  <2> QED
    BY <2>2, <2>3, Zenon DEF OwnUpTo
<1>4. SubSeq(t, 1, 0) = <<>> /\ OwnUpTo(t, 0) /\ 0 \in 0 .. Len(t)
  BY Beginning DEF OwnUpTo
<1>5. P \subseteq Q
  <2> SUFFICES ASSUME NEW r \in Valid(UpTo(t)), UpTo(r) \subseteq Valid(UpTo(t))
               PROVE  r \in Q
    BY <1>4
  <2>1. PICK k \in 1 .. Len(t) : r = SubSeq(t, 1, k)
    BY DEF Valid, UpTo
  <2> QED
    BY <2>1, <1>3
<1>6. Q \subseteq P
  <2> SUFFICES ASSUME NEW k \in 0 .. Len(t), OwnUpTo(t, k)
               PROVE  SubSeq(t, 1, k) \in P
    OBVIOUS
  <2>1. CASE k = 0
    BY <2>1, <1>4
  <2>2. CASE k # 0
    BY <2>2, <1>1, <1>3 DEF OwnUpTo
  <2> QED
    BY <2>1, <2>2
<1> QED
  BY <1>5, <1>6

(* There is a longest one: the one that ends before the first audit of     *)
(* another service.                                                        *)
LEMMA LongestOwn ==
    ASSUME NEW t \in Seq(Audit)
    PROVE  \E k \in 0 .. Len(t) : /\ OwnUpTo(t, k)
                                  /\ \A j \in 0 .. Len(t) : OwnUpTo(t, j) => j <= k
<1> DEFINE Alien == {i \in 1 .. Len(t) : t[i].by # "events"}
<1>1. CASE Alien = {}
  <2>1. Len(t) \in 0 .. Len(t) /\ OwnUpTo(t, Len(t))
    BY <1>1 DEF OwnUpTo
  <2>2. \A j \in 0 .. Len(t) : j <= Len(t)
    OBVIOUS
  <2> QED
    BY <2>1, <2>2
<1>2. CASE Alien # {}
  <2>1. PICK n \in Alien : \A i \in Alien : <<i, n>> \notin OpToRel(<, Nat)
    <3>1. Alien \subseteq Nat
      OBVIOUS
    <3> HIDE DEF Alien
    <3> QED
      BY <1>2, <3>1, WFMin, NatLessThanWellFounded, Zenon
  <2>2. \A i \in Alien : ~(i < n)
    <3>1. Alien \subseteq Nat
      OBVIOUS
    <3>2. \A i, j \in Nat : i < j => <<i, j>> \in OpToRel(<, Nat)
      BY DEF OpToRel
    <3> HIDE DEF Alien
    <3> QED
      BY <2>1, <3>1, <3>2
  <2>3. n - 1 \in 0 .. Len(t) /\ OwnUpTo(t, n - 1)
    BY <2>2 DEF OwnUpTo
  <2>4. \A j \in 0 .. Len(t) : OwnUpTo(t, j) => j <= n - 1
    BY DEF OwnUpTo
  <2> QED
    BY <2>3, <2>4
<1> QED
  BY <1>1, <1>2

LEMMA CanonicalBeginning ==
    ASSUME NEW t \in Seq(Audit)
    PROVE  /\ Canonical(UpTo(t)) \in Seq(Audit)
           /\ OwnUpTo(t, Len(t)) => Canonical(UpTo(t)) = t
<1> DEFINE K == {j \in 0 .. Len(t) : OwnUpTo(t, j)}
           C == Canonical(UpTo(t))
<1>1. C = CHOOSE r \in {SubSeq(t, 1, k) : k \in K} :
                \A q \in {SubSeq(t, 1, k) : k \in K} : Len(q) <= Len(r)
  BY Paths DEF Canonical
<1>2. PICK m \in K : \A j \in K : j <= m
  BY LongestOwn
<1>3. \A k \in K : Len(SubSeq(t, 1, k)) = k /\ SubSeq(t, 1, k) \in Seq(Audit)
  BY Beginning
<1>4. PICK c \in K : C = SubSeq(t, 1, c) /\ \A k \in K : k <= c
  <2> HIDE DEF C, K
  <2>1. \A q \in {SubSeq(t, 1, k) : k \in K} : Len(q) <= Len(SubSeq(t, 1, m))
    BY <1>2, <1>3
  <2>2. /\ C \in {SubSeq(t, 1, k) : k \in K}
        /\ \A q \in {SubSeq(t, 1, k) : k \in K} : Len(q) <= Len(C)
    BY <1>1, <2>1
  <2> QED
    BY <2>2, <1>3
<1>5. C \in Seq(Audit)
  BY <1>3, <1>4
<1>6. ASSUME OwnUpTo(t, Len(t)) PROVE C = t
  <2>1. Len(t) \in K
    BY <1>6
  <2>2. c = Len(t)
    BY <2>1, <1>4
  <2> QED
    BY <2>2, <1>4, SubSeqFull
<1> QED
  BY <1>5, <1>6

(* A chain of the event service's audits alone has no issue but that it    *)
(* may be empty.                                                           *)
LEMMA NoIssues ==
    ASSUME NEW t \in Seq(Audit), OwnUpTo(t, Len(t))
    PROVE  Issues(UpTo(t)) = IF t = <<>> THEN {"empty_chain"} ELSE {}
<1> DEFINE R == UpTo(t)
<1>1. Valid(R) = R
  <2>1. \A k \in 1 .. Len(t) : Own(SubSeq(t, 1, k)) = t[k] /\ t[k].by = "events"
    BY Beginning DEF OwnUpTo
  <2> QED
    BY <2>1 DEF Valid, UpTo
<1>2. Canonical(R) = t
  BY CanonicalBeginning
<1>3. \A r \in R : Previous(r) \in R \cup {<<>>}
  <2> SUFFICES ASSUME NEW k \in 1 .. Len(t)
               PROVE  Previous(SubSeq(t, 1, k)) \in R \cup {<<>>}
    BY DEF UpTo
  <2>1. Previous(SubSeq(t, 1, k)) = SubSeq(SubSeq(t, 1, k), 1, k - 1)
    BY Beginning DEF Previous
  <2>2. CASE k = 1
    <3>1. Previous(SubSeq(t, 1, k)) = SubSeq(SubSeq(t, 1, k), 1, 0)
      BY <2>1, <2>2
    <3> QED
      BY <3>1, SubSeqEmpty
  <2>3. CASE k # 1
    <3>1. k - 1 \in 1 .. k /\ k - 1 \in 1 .. Len(t)
      BY <2>3
    <3> QED
      BY <2>1, <3>1, BeginningOfBeginning DEF UpTo
  <2> QED
    BY <2>2, <2>3
<1>4. ASSUME NEW r \in R, NEW q \in R, Previous(r) = Previous(q) PROVE r = q
  <2>1. PICK k \in 1 .. Len(t) : r = SubSeq(t, 1, k)
    BY DEF UpTo
  <2>2. PICK j \in 1 .. Len(t) : q = SubSeq(t, 1, j)
    BY DEF UpTo
  <2>3. r \in Seq(Audit) /\ Len(r) = k /\ q \in Seq(Audit) /\ Len(q) = j
    BY <2>1, <2>2, Beginning
  <2>4. Len(Previous(r)) = k - 1 /\ Len(Previous(q)) = j - 1
    BY <2>3, Beginning DEF Previous
  <2> QED
    BY <2>1, <2>2, <2>4, <1>4
<1>5. R = {} <=> t = <<>>
  BY UpToEvidence
<1> HIDE DEF R
<1>6. Issues(R) = {i \in Issue : i = "empty_chain" /\ R = {}}
  BY <1>1, <1>2, <1>3, <1>4 DEF Issues, R
<1> QED
  BY <1>5, <1>6 DEF Issue, R

-----------------------------------------------------------------------------
(* The inductive invariant.                                                *)

OneChain == \E t \in Seq(Audit) : disk = UpTo(t)

RequestInv(r) ==
    /\ r \in Request /\ r.list \subseteq disk
    /\ r.pc \in {"put", "commit"} => r.audit.by = "events"
    /\ r.pc = "commit" \/ r.op \in {"replayed", "refused"} => hasEvents /\ (Alone => r.count > 0)
    /\ r.pc \in {"list", "set", "audited", "putEvent"} => disk # {}
    /\ r.pc = "set" => \E t \in Evidence : r.list = UpTo(t)

(* What the process holds while nobody else commits: its own audits only,  *)
(* and some of them once there is an event, an audit on disk or one under  *)
(* way to it.                                                              *)
Healthy ==
    Alone => /\ OwnUpTo(chain, Len(chain))
             /\ issues = IF chain = <<>> THEN {"empty_chain"} ELSE {}
             /\ chain = <<>> => /\ ~hasEvents /\ disk = {}
                                /\ \A s \in Slot : rq[s].pc # "put"

IInv ==
    /\ OneChain
    /\ chain \in Seq(Audit)
    /\ issues \subseteq Issue
    /\ hasEvents \in BOOLEAN /\ savedEvents \in BOOLEAN
    /\ drawn \in Nat /\ faults \in Nat
    /\ hasEvents \/ savedEvents => disk # {}
    /\ Healthy
    /\ rq \in [Slot -> Request]
    /\ \A s \in Slot : RequestInv(rq[s])

(* While there is one chain its end is the tail.                           *)
LEMMA TailOfChain ==
    ASSUME NEW t \in Seq(Audit), disk = UpTo(t)
    PROVE  DiskTail = t
<1>1. t \in disk \cup {<<>>} /\ \A q \in disk : Len(q) <= Len(t)
  BY UpToEvidence
<1>2. DiskTail \in disk \cup {<<>>} /\ \A q \in disk : Len(q) <= Len(DiskTail)
  BY <1>1 DEF DiskTail
<1>3. CASE t = <<>>
  BY <1>2, <1>3, UpToEvidence
<1>4. CASE t # <<>>
  <2>1. t \in disk /\ Len(t) > 0
    BY <1>4, UpToEvidence, EmptySeq
  <2>2. Len(t) <= Len(DiskTail)
    BY <1>2, <2>1
  <2>3. DiskTail # <<>>
    BY <2>1, <2>2
  <2>4. PICK k \in 1 .. Len(t) : DiskTail = SubSeq(t, 1, k)
    BY <1>2, <2>3 DEF UpTo
  <2>5. k = Len(t)
    BY <2>2, <2>4, Beginning
  <2> QED
    BY <2>4, <2>5, SubSeqFull
<1> QED
  BY <1>3, <1>4

(* A commit extends the chain by its audit.                                *)
LEMMA CommitExtends ==
    ASSUME OneChain, NEW a \in Audit, Commit(a)
    PROVE  OneChain' /\ disk \subseteq disk' /\ disk' # {}
<1>1. PICK t \in Seq(Audit) : disk = UpTo(t)
  BY DEF OneChain
<1>2. disk' = UpTo(t) \cup {Append(t, a)}
  BY <1>1, TailOfChain DEF Commit
<1>3. Append(t, a) \in Seq(Audit) /\ UpTo(Append(t, a)) = UpTo(t) \cup {Append(t, a)}
  BY UpToAppend, AppendProperties
<1> QED
  BY <1>1, <1>2, <1>3 DEF OneChain

(* Nobody else has committed to what is on disk now, so nobody had before. *)
LEMMA AloneBefore ==
    ASSUME disk \subseteq disk', Alone'
    PROVE  Alone
BY DEF Alone, Valid

LEMMA OwnWhenAlone ==
    ASSUME Alone, NEW t \in Seq(Audit), UpTo(t) \subseteq disk
    PROVE  OwnUpTo(t, Len(t))
<1>1. SUFFICES ASSUME NEW k \in 1 .. Len(t) PROVE t[k].by = "events"
  BY DEF OwnUpTo
<1>2. SubSeq(t, 1, k) \in disk
  BY DEF UpTo
<1>3. k \in 0 .. Len(t) /\ k > 0
  OBVIOUS
<1>4. Own(SubSeq(t, 1, k)) = t[k]
  BY <1>3, Beginning
<1> QED
  BY <1>2, <1>4 DEF Alone, Valid

(* What a request may rely on stays true of the requests that do not step. *)
LEMMA OneSteps ==
    ASSUME rq \in [Slot -> Request], \A s \in Slot : RequestInv(rq[s]),
           disk \subseteq disk', hasEvents => hasEvents',
           NEW s \in Slot, NEW new, RequestInv(new)',
           rq' = [rq EXCEPT ![s] = new]
    PROVE  rq' \in [Slot -> Request] /\ \A x \in Slot : RequestInv(rq[x])'
<1>1. new \in Request
  BY DEF RequestInv
<1>2. rq' \in [Slot -> Request] /\ rq'[s] = new /\ \A x \in Slot \ {s} : rq'[x] = rq[x]
  BY <1>1
<1>3. ASSUME NEW x \in Slot \ {s} PROVE RequestInv(rq[x])'
  <2>1. RequestInv(rq[x]) /\ rq'[x] = rq[x]
    BY <1>2
  <2> QED
    BY <2>1, AloneBefore DEF RequestInv
<1>4. RequestInv(rq[s])'
  BY <1>2 DEF RequestInv
<1> QED
  BY <1>2, <1>3, <1>4

(* restoreAuditPrefix leaves a beginning of the list, and some of it if    *)
(* there was some before the audit.                                        *)
LEMMA RestoreKeeps ==
    ASSUME IInv, NEW s \in Slot, RestorePrefix(s),
           rq[s].pc = "commit" \/ rq[s].op = "replayed"
    PROVE  /\ chain' \in Seq(Audit) /\ issues' \subseteq Issue
           /\ Alone => /\ OwnUpTo(chain', Len(chain'))
                       /\ issues' = {}
                       /\ chain' # <<>>
<1>1. chain \in Seq(Audit) /\ RequestInv(rq[s]) /\ Healthy /\ hasEvents
  BY DEF IInv, RequestInv
<1>2. rq[s].count \in Nat /\ (Alone => rq[s].count > 0)
  BY <1>1 DEF RequestInv, Request
<1> DEFINE m == IF rq[s].count < Len(chain) THEN rq[s].count ELSE Len(chain)
<1>3. Len(chain) \in Nat /\ m \in 0 .. Len(chain)
  BY <1>1, <1>2
<1>4. chain' = SubSeq(chain, 1, m) /\ issues' = Issues(UpTo(chain'))
  BY DEF RestorePrefix
<1>5. /\ chain' \in Seq(Audit) /\ Len(chain') = m
      /\ \A i \in 1 .. m : chain'[i] = chain[i]
  BY <1>1, <1>3, <1>4, Beginning
<1>6. issues' \subseteq Issue
  BY <1>4 DEF Issues
<1>7. ASSUME Alone
      PROVE  OwnUpTo(chain', Len(chain')) /\ issues' = {} /\ chain' # <<>>
  <2>1. OwnUpTo(chain, Len(chain)) /\ chain # <<>>
    BY <1>1, <1>7 DEF Healthy
  <2>2. m > 0
    BY <1>1, <1>2, <1>7, <2>1, EmptySeq
  <2>3. OwnUpTo(chain', Len(chain')) /\ chain' # <<>>
    BY <1>3, <1>5, <2>1, <2>2 DEF OwnUpTo
  <2> QED
    BY <1>4, <1>5, <2>3, NoIssues
<1> QED
  BY <1>5, <1>6, <1>7

-----------------------------------------------------------------------------
(* Every step keeps the invariant.                                         *)

LEMMA InitHolds ==
    Init => IInv
<1> SUFFICES ASSUME Init PROVE IInv
  OBVIOUS
<1>1. <<>> \in Seq(Audit) /\ Len(<<>>) = 0
  BY EmptySeq
<1>2. UpTo(<<>>) = {} /\ OwnUpTo(<<>>, 0)
  <2>1. 1 .. 0 = {}
    OBVIOUS
  <2> QED
    BY <1>1, <2>1 DEF UpTo, OwnUpTo
<1>3. OneChain /\ Healthy
  BY <1>1, <1>2 DEF Init, OneChain, Healthy, Idle
<1>4. Idle \in Request
  BY DEF Idle, Request, Pc, Op, NoAudit, Audit
<1>5. \A s \in Slot : RequestInv(rq[s])
  BY <1>4 DEF Init, RequestInv, Idle
<1> QED
  BY <1>1, <1>3, <1>4, <1>5 DEF Init, IInv, Issue

(* A request that ends relies on nothing.                                  *)
LEMMA IdleRelies ==
    RequestInv(Idle)'
<1>1. Idle \in Request
  BY DEF Idle, Request, Pc, Op, NoAudit, Audit
<1> QED
  BY <1>1 DEF RequestInv, Idle

(* A step of a request that leaves the disk and the list alone.            *)
LEMMA RequestAdvances ==
    ASSUME IInv, NEW s \in Slot, NEW new, RequestInv(new)',
           rq' = [rq EXCEPT ![s] = new], new.pc # "put", faults' \in Nat,
           UNCHANGED <<disk, chain, issues, hasEvents, savedEvents, drawn>>
    PROVE  IInv'
<1>1. disk \subseteq disk' /\ (hasEvents => hasEvents')
  OBVIOUS
<1>2. rq' \in [Slot -> Request] /\ \A x \in Slot : RequestInv(rq[x])'
  BY <1>1, OneSteps DEF IInv
<1>3. \A x \in Slot : rq'[x].pc = "put" => rq[x].pc = "put"
  BY DEF IInv
<1>4. Healthy'
  BY <1>3 DEF IInv, Healthy, Alone
<1> QED
  BY <1>2, <1>4 DEF IInv, OneChain

LEMMA AppendKeeps ==
    ASSUME IInv, NEW s \in Slot, NEW op \in {"interpret", "audit", "mutate"},
           AppendAudit(s, op)
    PROVE  IInv'
<1>a. PICK a : a = NewAudit("events")
  OBVIOUS
<1>n. PICK new : new = [Idle EXCEPT !.pc = IF op = "mutate" THEN "commit" ELSE "put",
                                    !.op = op, !.count = Len(chain), !.audit = a]
  OBVIOUS
<1>1. /\ chain \in Seq(Audit) /\ drawn \in Nat /\ Healthy /\ ~Refused
      /\ op # "interpret" => hasEvents
      /\ drawn' = drawn + 1 /\ chain' = Append(chain, a) /\ issues' = {}
      /\ rq' = [rq EXCEPT ![s] = new]
      /\ UNCHANGED <<disk, hasEvents, savedEvents, faults>>
  BY <1>a, <1>n DEF IInv, AppendAudit, Draw
<1>2. a \in Audit /\ a.by = "events"
  BY <1>1, <1>a DEF NewAudit, Audit
<1>3. /\ chain' \in Seq(Audit) /\ chain' # <<>> /\ Len(chain') = Len(chain) + 1
      /\ \A i \in 1 .. Len(chain) : chain'[i] = chain[i]
      /\ chain'[Len(chain) + 1] = a
  BY <1>1, <1>2, AppendProperties
<1>4. OwnUpTo(chain, Len(chain)) => OwnUpTo(chain', Len(chain'))
  BY <1>1, <1>2, <1>3 DEF OwnUpTo
<1>5. Alone' <=> Alone
  BY <1>1 DEF Alone
<1>6. Healthy'
  BY <1>1, <1>3, <1>4, <1>5 DEF Healthy
<1>7. hasEvents => Len(chain) > 0
  BY <1>1, EmptySeq DEF Refused
<1>8. new \in Request /\ new.list = {} /\ new.audit = a /\ new.count = Len(chain)
      /\ new.pc \in {"put", "commit"} /\ (new.pc = "commit" => op = "mutate")
      /\ new.op \notin {"replayed", "refused"}
  <2>1. Len(chain) \in Nat
    BY <1>1
  <2> QED
    BY <1>n, <1>2, <2>1 DEF Idle, Request, Pc, Op
<1>9. RequestInv(new)'
  <2>1. new.pc = "commit" => hasEvents' /\ new.count > 0
    BY <1>1, <1>7, <1>8
  <2> QED
    BY <1>2, <1>8, <2>1 DEF RequestInv
<1>10. rq' \in [Slot -> Request] /\ \A x \in Slot : RequestInv(rq[x])'
  <2>1. disk \subseteq disk' /\ (hasEvents => hasEvents')
    BY <1>1
  <2> QED
    BY <1>1, <1>9, <2>1, OneSteps DEF IInv
<1> QED
  BY <1>1, <1>3, <1>6, <1>10 DEF IInv, OneChain, Issue

LEMMA LandKeeps ==
    ASSUME IInv, NEW s \in Slot, LandAudit(s)
    PROVE  IInv'
<1>n. PICK new : new = [rq[s] EXCEPT !.pc = "list"]
  OBVIOUS
<1>1. /\ RequestInv(rq[s]) /\ rq[s] \in Request /\ OneChain /\ Commit(rq[s].audit)
      /\ rq' = [rq EXCEPT ![s] = new]
      /\ UNCHANGED <<chain, issues, hasEvents, savedEvents, drawn, faults>>
  BY <1>n DEF IInv, LandAudit, Goto, RequestInv
<1>2. rq[s].audit \in Audit
  BY <1>1 DEF Request
<1>3. OneChain' /\ disk \subseteq disk' /\ disk' # {}
  BY <1>1, <1>2, CommitExtends
<1>4. /\ new \in Request /\ new.pc = "list" /\ new.list = rq[s].list
      /\ new.op = rq[s].op /\ new.count = rq[s].count
  BY <1>1, <1>n DEF Request, Pc
<1>5. RequestInv(new)'
  BY <1>1, <1>3, <1>4, AloneBefore DEF RequestInv
<1>6. rq' \in [Slot -> Request] /\ \A x \in Slot : RequestInv(rq[x])'
  BY <1>1, <1>3, <1>5, OneSteps DEF IInv
<1>7. Healthy'
  <2>1. SUFFICES ASSUME Alone' PROVE Healthy'
    BY DEF Healthy
  <2>2. Alone /\ Healthy
    BY <1>3, <2>1, AloneBefore DEF IInv
  <2>3. rq[s].pc = "commit" => disk # {}
    BY <1>1 DEF RequestInv, IInv
  <2>4. chain # <<>>
    BY <2>2, <2>3 DEF Healthy, LandAudit
  <2> QED
    BY <1>1, <2>2, <2>4 DEF Healthy
<1> QED
  BY <1>1, <1>3, <1>6, <1>7 DEF IInv

LEMMA CommitOtherKeeps ==
    ASSUME IInv, CommitOther
    PROVE  IInv'
<1>1. /\ drawn \in Nat /\ drawn' = drawn + 1 /\ OneChain /\ Commit(NewAudit("others"))
      /\ UNCHANGED <<chain, issues, hasEvents, savedEvents, faults, rq>>
  BY DEF IInv, CommitOther, Draw
<1>2. NewAudit("others") \in Audit
  BY <1>1 DEF NewAudit, Audit
<1>3. OneChain' /\ disk \subseteq disk' /\ disk' # {}
  BY <1>1, <1>2, CommitExtends
<1>4. Healthy'
  <2>1. PICK t \in Seq(Audit) : disk = UpTo(t)
    BY <1>1 DEF OneChain
  <2>2. Append(t, NewAudit("others")) \in disk'
    BY <1>1, <2>1, TailOfChain DEF Commit
  <2>3. Own(Append(t, NewAudit("others"))) = NewAudit("others")
    BY <1>2, AppendProperties DEF Own
  <2>4. ~Alone'
    BY <2>2, <2>3 DEF Alone, Valid, NewAudit
  <2> QED
    BY <2>4 DEF Healthy
<1>5. ASSUME NEW x \in Slot PROVE RequestInv(rq[x])'
  <2>1. RequestInv(rq[x]) /\ rq'[x] = rq[x]
    BY <1>1 DEF IInv
  <2> QED
    BY <1>1, <1>3, <2>1, AloneBefore DEF RequestInv
<1> QED
  BY <1>1, <1>3, <1>4, <1>5 DEF IInv

(* Both ways a commit can be answered with less than success.              *)
LEMMA RefuseKeeps ==
    ASSUME IInv, NEW s \in Slot, RefuseMutation(s)
    PROVE  IInv'
<1>n. PICK op \in {"replayed", "refused"} :
        rq' = [rq EXCEPT ![s] = [rq[s] EXCEPT !.pc = "list", !.op = op]]
  BY DEF IInv, RefuseMutation
<1>m. PICK new : new = [rq[s] EXCEPT !.pc = "list", !.op = op]
  OBVIOUS
<1>1. /\ RequestInv(rq[s]) /\ rq[s] \in Request /\ rq[s].pc = "commit"
      /\ RestorePrefix(s) /\ rq' = [rq EXCEPT ![s] = new]
      /\ UNCHANGED <<disk, hasEvents, savedEvents, drawn, faults>>
  BY <1>n, <1>m DEF IInv, RefuseMutation, RequestInv
<1>2. disk # {} /\ disk \subseteq disk' /\ (hasEvents => hasEvents')
  BY <1>1 DEF IInv, RequestInv
<1>3. /\ new \in Request /\ new.pc = "list" /\ new.list = rq[s].list
      /\ new.count = rq[s].count
  BY <1>1, <1>m DEF Request, Pc, Op
<1>4. RequestInv(new)'
  BY <1>1, <1>2, <1>3, AloneBefore DEF RequestInv
<1>5. rq' \in [Slot -> Request] /\ \A x \in Slot : RequestInv(rq[x])'
  BY <1>1, <1>2, <1>4, OneSteps DEF IInv
<1>6. chain' \in Seq(Audit) /\ issues' \subseteq Issue /\ Healthy'
  BY <1>1, <1>2, RestoreKeeps, AloneBefore DEF Healthy
<1> QED
  BY <1>1, <1>5, <1>6 DEF IInv, OneChain

LEMMA LoseKeeps ==
    ASSUME IInv, NEW s \in Slot, LoseMutation(s)
    PROVE  IInv'
<1>1. /\ RequestInv(rq[s]) /\ rq[s] \in Request /\ rq[s].pc = "commit" /\ OneChain
      /\ Commit(rq[s].audit) \/ UNCHANGED disk
      /\ RestorePrefix(s) /\ rq' = [rq EXCEPT ![s] = Idle]
      /\ faults' = faults + 1
      /\ UNCHANGED <<hasEvents, savedEvents, drawn>>
  BY DEF IInv, LoseMutation, RequestInv, End, Fault
<1>2. rq[s].audit \in Audit /\ hasEvents /\ disk # {}
  BY <1>1 DEF Request, RequestInv, IInv
<1>3. OneChain' /\ disk \subseteq disk' /\ disk' # {}
  <2>1. CASE Commit(rq[s].audit)
    BY <1>1, <1>2, <2>1, CommitExtends
  <2>2. CASE UNCHANGED disk
    BY <1>1, <1>2, <2>2 DEF OneChain
  <2> QED
    BY <1>1, <2>1, <2>2
<1>4. rq' \in [Slot -> Request] /\ \A x \in Slot : RequestInv(rq[x])'
  <2>1. hasEvents => hasEvents'
    BY <1>1
  <2>2. PICK new : new = Idle
    OBVIOUS
  <2>3. RequestInv(new)' /\ rq' = [rq EXCEPT ![s] = new]
    BY <1>1, <2>2, IdleRelies
  <2> QED
    BY <1>3, <2>1, <2>3, OneSteps DEF IInv
<1>5. chain' \in Seq(Audit) /\ issues' \subseteq Issue /\ Healthy'
  BY <1>1, <1>3, RestoreKeeps, AloneBefore DEF Healthy
<1> QED
  BY <1>1, <1>3, <1>4, <1>5 DEF IInv

(* The second cut after a replay.                                          *)
LEMMA CutKeeps ==
    ASSUME IInv, NEW s \in Slot, CutAgain(s)
    PROVE  IInv'
<1>1. /\ RequestInv(rq[s]) /\ rq[s].op = "replayed" /\ RestorePrefix(s)
      /\ rq' = [rq EXCEPT ![s] = Idle] /\ faults' \in Nat
      /\ UNCHANGED <<disk, hasEvents, savedEvents, drawn>>
  BY DEF IInv, CutAgain, End, Fault
<1>2. rq' \in [Slot -> Request] /\ \A x \in Slot : RequestInv(rq[x])'
  <2>1. disk \subseteq disk' /\ (hasEvents => hasEvents')
    BY <1>1
  <2>2. PICK new : new = Idle
    OBVIOUS
  <2>3. RequestInv(new)' /\ rq' = [rq EXCEPT ![s] = new]
    BY <1>1, <2>2, IdleRelies
  <2> QED
    BY <2>1, <2>3, OneSteps DEF IInv
<1>3. chain' \in Seq(Audit) /\ issues' \subseteq Issue /\ Healthy'
  BY <1>1, RestoreKeeps DEF Healthy, Alone
<1> QED
  BY <1>1, <1>2, <1>3 DEF IInv, OneChain

(* The list read from the disk becomes the list in memory.                 *)
LEMMA SetKeeps ==
    ASSUME IInv, NEW s \in Slot, SetAudits(s)
    PROVE  IInv'
<1>n. PICK new : new = IF rq[s].op = "interpret" THEN [rq[s] EXCEPT !.pc = "audited"]
                                                 ELSE Idle
  OBVIOUS
<1>1. /\ RequestInv(rq[s]) /\ rq[s] \in Request /\ rq[s].pc = "set"
      /\ chain' = Canonical(rq[s].list) /\ issues' = Issues(rq[s].list)
      /\ rq' = [rq EXCEPT ![s] = new]
      /\ UNCHANGED <<disk, hasEvents, savedEvents, drawn, faults>>
  BY <1>n DEF IInv, SetAudits, RequestInv, Goto, End
<1>2. PICK t \in Evidence : rq[s].list = UpTo(t) /\ UpTo(t) \subseteq disk
  BY <1>1 DEF RequestInv
<1>3. t \in Seq(Audit) /\ t # <<>> /\ disk # {}
  BY <1>1, <1>2 DEF Evidence, RequestInv
<1>4. chain' \in Seq(Audit) /\ issues' \subseteq Issue
  BY <1>1, <1>2, <1>3, CanonicalBeginning DEF Issues
<1>5. ASSUME Alone PROVE chain' = t /\ OwnUpTo(t, Len(t)) /\ issues' = {}
  <2>1. OwnUpTo(t, Len(t))
    BY <1>2, <1>3, <1>5, OwnWhenAlone
  <2> QED
    BY <1>1, <1>2, <1>3, <2>1, CanonicalBeginning, NoIssues
<1>6. Healthy'
  BY <1>1, <1>3, <1>5 DEF Healthy, Alone
<1>7. RequestInv(new)'
  <2>1. CASE rq[s].op = "interpret"
    <3>1. /\ new \in Request /\ new.pc = "audited" /\ new.list = rq[s].list
          /\ new.op = "interpret"
      BY <1>1, <1>n, <2>1 DEF Request, Pc
    <3> QED
      BY <1>1, <1>3, <3>1 DEF RequestInv
  <2>2. CASE rq[s].op # "interpret"
    BY <1>n, <2>2, IdleRelies
  <2> QED
    BY <2>1, <2>2
<1>8. rq' \in [Slot -> Request] /\ \A x \in Slot : RequestInv(rq[x])'
  <2>1. disk \subseteq disk' /\ (hasEvents => hasEvents')
    BY <1>1
  <2> QED
    BY <1>1, <1>7, <2>1, OneSteps DEF IInv
<1> QED
  BY <1>1, <1>4, <1>6, <1>8 DEF IInv, OneChain

LEMMA RestartKeeps ==
    ASSUME IInv, Restart
    PROVE  IInv'
<1>1. /\ chain' = Canonical(disk) /\ issues' = Issues(disk)
      /\ hasEvents' = savedEvents /\ rq' = [s \in Slot |-> Idle]
      /\ faults' = faults + 1
      /\ UNCHANGED <<disk, savedEvents, drawn>>
  BY DEF Restart, Fault
<1>2. PICK t \in Seq(Audit) : disk = UpTo(t)
  BY DEF IInv, OneChain
<1>3. chain' \in Seq(Audit) /\ issues' \subseteq Issue
  BY <1>1, <1>2, CanonicalBeginning DEF Issues
<1>4. ASSUME Alone
      PROVE  /\ chain' = t /\ OwnUpTo(t, Len(t))
             /\ issues' = IF t = <<>> THEN {"empty_chain"} ELSE {}
  <2>1. OwnUpTo(t, Len(t))
    BY <1>2, <1>4, OwnWhenAlone
  <2> QED
    BY <1>1, <1>2, <2>1, CanonicalBeginning, NoIssues
<1>5. (savedEvents => disk # {}) /\ (t = <<>> => disk = {})
  BY <1>2, UpToEvidence DEF IInv
<1>6. Healthy'
  <2>1. \A s \in Slot : rq'[s].pc # "put"
    BY <1>1 DEF Idle
  <2> QED
    BY <1>1, <1>4, <1>5, <2>1 DEF Healthy, Alone, IInv
<1>7. Idle \in Request
  BY DEF Idle, Request, Pc, Op, NoAudit, Audit
<1>8. rq' \in [Slot -> Request] /\ \A x \in Slot : RequestInv(rq[x])'
  BY <1>1, <1>7 DEF RequestInv, Idle
<1> QED
  BY <1>1, <1>3, <1>6, <1>8 DEF IInv, OneChain

(* The other steps move one request, or tell of the event it made.         *)
LEMMA StepKeeps ==
    IInv /\ [Next]_vars => IInv'
<1> SUFFICES ASSUME IInv, [Next]_vars PROVE IInv'
  OBVIOUS
<1>1. CASE UNCHANGED vars
  <2>1. \A x \in Slot : RequestInv(rq[x])'
    BY <1>1 DEF IInv, RequestInv, Alone, vars
  <2> QED
    BY <1>1, <2>1 DEF IInv, OneChain, Healthy, Alone, vars
<1>2. ASSUME NEW s \in Slot, ThrowMutation(s) \/ StopUnwinding(s) \/ CallFails(s)
      PROVE  IInv'
  <2>1. PICK new : new = Idle
    OBVIOUS
  <2>2. /\ rq' = [rq EXCEPT ![s] = new] /\ faults' \in Nat
        /\ UNCHANGED <<disk, chain, issues, hasEvents, savedEvents, drawn>>
    BY <1>2, <2>1 DEF IInv, ThrowMutation, StopUnwinding, CallFails, End, Fault
  <2>3. RequestInv(new)' /\ new.pc # "put"
    BY <2>1, IdleRelies DEF Idle
  <2> QED
    BY <2>2, <2>3, RequestAdvances
<1>3. ASSUME NEW s \in Slot, ListAudits(s) PROVE IInv'
  <2>1. PICK new : new = [rq[s] EXCEPT !.pc = "set", !.list = disk]
    OBVIOUS
  <2>2. /\ rq' = [rq EXCEPT ![s] = new] /\ faults' \in Nat
        /\ UNCHANGED <<disk, chain, issues, hasEvents, savedEvents, drawn>>
        /\ rq[s] \in Request /\ RequestInv(rq[s]) /\ rq[s].pc = "list"
    BY <1>3, <2>1 DEF IInv, ListAudits, RequestInv
  <2>3. PICK t \in Seq(Audit) : disk = UpTo(t)
    BY DEF IInv, OneChain
  <2>4. disk # {} /\ t \in Evidence /\ disk \subseteq Evidence
    BY <2>2, <2>3, UpToEvidence DEF RequestInv, Evidence
  <2>5. /\ new \in Request /\ new.pc = "set" /\ new.list = disk
        /\ new.op = rq[s].op /\ new.count = rq[s].count
    BY <2>1, <2>2, <2>4 DEF Request, Pc
  <2>6. RequestInv(new)'
    BY <2>2, <2>3, <2>4, <2>5, AloneBefore DEF RequestInv
  <2> QED
    BY <2>2, <2>5, <2>6, RequestAdvances
<1>4. ASSUME NEW s \in Slot, AddEvent(s) PROVE IInv'
  <2>1. PICK new : new = [rq[s] EXCEPT !.pc = "putEvent"]
    OBVIOUS
  <2>2. /\ rq' = [rq EXCEPT ![s] = new] /\ hasEvents' = TRUE
        /\ UNCHANGED <<disk, chain, issues, savedEvents, drawn, faults>>
        /\ rq[s] \in Request /\ RequestInv(rq[s]) /\ rq[s].pc = "audited"
    BY <1>4, <2>1 DEF IInv, AddEvent, RequestInv, Goto
  <2>3. /\ new \in Request /\ new.pc = "putEvent" /\ new.list = rq[s].list
        /\ new.op = rq[s].op /\ new.count = rq[s].count /\ disk # {}
    BY <2>1, <2>2 DEF Request, Pc, RequestInv
  <2>4. RequestInv(new)'
    BY <2>2, <2>3, AloneBefore DEF RequestInv
  <2>5. rq' \in [Slot -> Request] /\ \A x \in Slot : RequestInv(rq[x])'
    BY <2>2, <2>4, OneSteps DEF IInv
  <2>6. Healthy'
    BY <2>2, <2>3 DEF IInv, Healthy, Alone
  <2> QED
    BY <2>2, <2>3, <2>5, <2>6 DEF IInv, OneChain
<1>5. ASSUME NEW s \in Slot, LandEvent(s) PROVE IInv'
  <2>1. PICK new : new = Idle
    OBVIOUS
  <2>2. /\ rq' = [rq EXCEPT ![s] = new] /\ savedEvents' = TRUE
        /\ UNCHANGED <<disk, chain, issues, hasEvents, drawn, faults>>
        /\ RequestInv(rq[s]) /\ rq[s].pc = "putEvent"
    BY <1>5, <2>1 DEF IInv, LandEvent, End
  <2>3. disk # {}
    BY <2>2 DEF RequestInv
  <2>4. RequestInv(new)'
    BY <2>1, IdleRelies
  <2>5. rq' \in [Slot -> Request] /\ \A x \in Slot : RequestInv(rq[x])'
    BY <2>2, <2>4, OneSteps DEF IInv
  <2>6. Healthy'
    BY <2>2, <2>3 DEF IInv, Healthy, Alone
  <2> QED
    BY <2>2, <2>3, <2>5, <2>6 DEF IInv, OneChain
<1> QED
  BY <1>1, <1>2, <1>3, <1>4, <1>5, AppendKeeps, LandKeeps, CommitOtherKeeps, RefuseKeeps,
     LoseKeeps, CutKeeps, SetKeeps, RestartKeeps DEF Next

-----------------------------------------------------------------------------
LEMMA Invariance ==
    Spec => []IInv
BY InitHolds, StepKeeps, PTL DEF Spec

(* Every variable keeps its type.                                          *)
THEOREM TypeCorrect ==
    Spec => []TypeOK
<1>1. IInv => TypeOK
  BY UpToEvidence DEF IInv, OneChain, RequestInv, TypeOK
<1> QED
  BY <1>1, Invariance, PTL

(* However many requests append to the list in memory, land in another     *)
(* order, read it again, cut it back, fail or restart: the chain on disk   *)
(* is complete, and while the event service is alone on it, no audited     *)
(* request is refused.                                                     *)
THEOREM NotRefused ==
    Spec => []NotRefusedAlone
<1>1. IInv => NotRefusedAlone
  <2> SUFFICES ASSUME IInv PROVE NotRefusedAlone
    OBVIOUS
  <2>1. PICK t \in Seq(Audit) : disk = UpTo(t)
    BY DEF IInv, OneChain
  <2>2. Complete(disk)
    BY <2>1, UpToEvidence DEF Complete
  <2>3. Alone => ~Refused
    BY DEF IInv, Healthy, Refused
  <2> QED
    BY <2>2, <2>3 DEF NotRefusedAlone
<1> QED
  BY <1>1, Invariance, PTL
=============================================================================
