--------------------------- MODULE MutationLedger ---------------------------
(***************************************************************************)
(* What commitEventMutation promises its callers, with no transaction,     *)
(* lock or idempotency table in sight: a ledger per tenant to which one    *)
(* complete entry is added at a time.  An entry names the request that     *)
(* made it (key and hash), the record it wrote and the version it wrote,   *)
(* and its outbox position.                                                *)
(***************************************************************************)
EXTENDS Naturals, Sequences, FiniteSets

CONSTANTS
    Tenant,      \* tenants
    Key,         \* Idempotency-Key values, each with its operation
    Hash,        \* hashes of request bodies
    Record,      \* authoritative records (kind and id)
    PutRecord    \* the records that put() may also overwrite

VARIABLES
    ledger,      \* [Tenant -> Seq(entry)], in the order of commits
    expired      \* [Tenant -> set of the entries' refs whose key has expired]

vars == <<ledger, expired>>

Entry == [pos : Nat \ {0}, ref : Nat \ {0}, key : Key, hash : Hash,
          rec : Record, ver : Nat \ {0}]

Init == /\ ledger = [t \in Tenant |-> << >>]
        /\ expired = [t \in Tenant |-> {}]

(* A key may be used again only when every entry made under it has expired. *)
KeyIsFree(t, k) ==
    \A i \in DOMAIN ledger[t] : ledger[t][i].key = k => ledger[t][i].ref \in expired[t]

VersionsOf(t, r) ==
    {ledger[t][i].ver : i \in {j \in DOMAIN ledger[t] : ledger[t][j].rec = r}}

(* A record that only guarded mutations write gets its versions one by one; *)
(* a consumer that has read up to a position never meets a smaller one.     *)
MayAppend(t, e) ==
    /\ e \in Entry
    /\ KeyIsFree(t, e.key)
    /\ e.rec \notin PutRecord => VersionsOf(t, e.rec) = 1 .. (e.ver - 1)
    /\ \A i \in DOMAIN ledger[t] : ledger[t][i].pos < e.pos /\ ledger[t][i].ref # e.ref

(* The new ledger determines the entry, which is drawn from an infinite set. *)
AddEntry(t) ==
    LET e == ledger'[t][Len(ledger'[t])] IN
    /\ Len(ledger'[t]) > Len(ledger[t])
    /\ ledger' = [ledger EXCEPT ![t] = Append(@, e)]
    /\ MayAppend(t, e)
    /\ UNCHANGED expired

Expire(t, i) ==
    /\ expired' = [expired EXCEPT ![t] = @ \cup {ledger[t][i].ref}]
    /\ UNCHANGED ledger

Next == \E t \in Tenant : \/ AddEntry(t)
                          \/ \E i \in DOMAIN ledger[t] : Expire(t, i)

Spec == Init /\ [][Next]_vars
=============================================================================
