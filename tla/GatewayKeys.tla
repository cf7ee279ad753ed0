----------------------------- MODULE GatewayKeys -----------------------------
(***************************************************************************)
(* API keys of the gateway: rows of api_keys, the entries gw:key:<hash>    *)
(* and gw:prefix:<prefix> that lookups put into Redis, and the handlers    *)
(* that create, update, revoke and rotate keys and delete the entries      *)
(* afterwards.  A lookup is a GET, a SELECT and a SET, a handler an UPDATE *)
(* or INSERT and then the DELs, and nothing holds them together.           *)
(*                                                                         *)
(* A lookup that finds its entry answers with it and changes nothing, so   *)
(* it is no action here.  What a row says but for revocation and expiry    *)
(* (permissions, origins, limits) is a version number.                     *)
(***************************************************************************)
EXTENDS Integers, Sequences

CONSTANTS
  Key,        \* generated keys; each has its own hash and prefix
  Lookup,     \* requests that a gateway authenticates, reused
  Admin,      \* requests of the key handlers, reused
  Sought,     \* bound: the entries that requests look for
  MaxVersion, \* bound: updates of a row
  NoEntry,    \* no entry in Redis
  Nil,        \* the cached refusal, and what a refused lookup returns
  None        \* no key, nothing looked for

ASSUME GatewayConstants ==
  /\ Sought \subseteq Key \X {"key", "prefix"}
  /\ MaxVersion \in Nat \ {0}
  /\ NoEntry \notin Nat /\ Nil \notin Nat /\ NoEntry # Nil
  /\ None \notin Key /\ None \notin Key \X {"key", "prefix"}

Path == {"key", "prefix"}
Entry == Key \X Path
Entries(k) == {k} \X Path

VARIABLES
  born,     \* keys with a row
  version,  \* what the row says
  revoked,  \* revoked_at is set
  expired,  \* expires_at has passed
  cache,    \* Redis
  step,     \* the statement each lookup is at
  about,    \* the entry it looks for
  got,      \* what its query returned
  pc,       \* the statement each handler is at
  old,      \* the key it rotates
  copied,   \* the settings it has read from it
  todo,     \* entries it has still to delete, in order
  unsure,   \* history: lookups whose row changed after they read it
  excused   \* history: entries that nobody is going to delete

rowVars == <<born, version, revoked, expired>>
lookupVars == <<step, about, got>>
handlerVars == <<pc, old, copied, todo>>
historyVars == <<unsure, excused>>
vars == <<rowVars, cache, lookupVars, handlerVars, historyVars>>

Init ==
  /\ born = {} /\ version = [k \in Key |-> 0] /\ revoked = {} /\ expired = {}
  /\ cache = [e \in Entry |-> NoEntry]
  /\ step = [l \in Lookup |-> "idle"]
  /\ about = [l \in Lookup |-> None]
  /\ got = [l \in Lookup |-> Nil]
  /\ pc = [a \in Admin |-> "new"]
  /\ old = [a \in Admin |-> None]
  /\ copied = [a \in Admin |-> 0]
  /\ todo = [a \in Admin |-> <<>>]
  /\ unsure = {} /\ excused = {}

\* Mutant: a query that does not look at revoked_at.
TruthUnrevoked(k) == IF k \in born \ expired THEN version[k] ELSE Nil

\* What lookupDB and lookupDBByPrefix make of the row.
Truth(k) == IF k \in born \ (revoked \cup expired) THEN version[k] ELSE Nil

-----------------------------------------------------------------------------
(* Lookups *)

\* GET finds no entry, or Redis does not answer.
Miss(l, e) ==
  /\ step[l] = "idle" /\ e \in Sought
  /\ step' = [step EXCEPT ![l] = "missed"]
  /\ about' = [about EXCEPT ![l] = e]
  /\ UNCHANGED <<rowVars, cache, got, handlerVars, historyVars>>

ReadRow(l) ==
  /\ step[l] = "missed"
  /\ step' = [step EXCEPT ![l] = "read"]
  /\ got' = [got EXCEPT ![l] = Truth(about[l][1])]
  /\ UNCHANGED <<rowVars, cache, about, handlerVars, historyVars>>

\* An error of the database looks like a key that does not exist.
ReadFails(l) ==
  /\ step[l] = "missed"
  /\ step' = [step EXCEPT ![l] = "read"]
  /\ got' = [got EXCEPT ![l] = Nil]
  /\ unsure' = unsure \cup {l}
  /\ UNCHANGED <<rowVars, cache, about, handlerVars, excused>>

EndLookup(l) ==
  /\ step[l] = "read"
  /\ step' = [step EXCEPT ![l] = "idle"]
  /\ about' = [about EXCEPT ![l] = None]
  /\ got' = [got EXCEPT ![l] = Nil]
  /\ unsure' = unsure \ {l}
  /\ UNCHANGED <<rowVars, handlerVars>>

\* SET with the positive or the negative TTL.
Store(l) ==
  /\ EndLookup(l)
  /\ cache' = [cache EXCEPT ![about[l]] = got[l]]
  /\ excused' = IF l \in unsure /\ got[l] # Truth(about[l][1])
                THEN excused \cup {about[l]} ELSE excused \ {about[l]}

StoreFails(l) == EndLookup(l) /\ UNCHANGED <<cache, excused>>

RemoveEntry(e) ==
  /\ cache' = [cache EXCEPT ![e] = NoEntry]
  /\ excused' = excused \ {e}

\* The TTL of an entry.
Expire(e) ==
  /\ cache[e] # NoEntry
  /\ RemoveEntry(e)
  /\ UNCHANGED <<rowVars, lookupVars, handlerVars, unsure>>

-----------------------------------------------------------------------------
(* Rows *)

Unrevoked == born \ revoked

\* The row of k changes under the lookups that have read it.
Overtake(k) ==
  unsure' = unsure \cup {l \in Lookup : step[l] = "read" /\ about[l] \in Entries(k)}

\* expires_at is looked at by the query only.
KeyExpires(k) ==
  /\ k \in born \ expired
  /\ expired' = expired \cup {k}
  /\ Overtake(k)
  /\ excused' = excused \cup {e \in Entries(k) : cache[e] \notin {NoEntry, Nil}}
  /\ UNCHANGED <<born, version, revoked, cache, lookupVars, handlerVars>>

-----------------------------------------------------------------------------
(* Handlers *)

\* Mutant: only the entry of the hash is deleted.
DelOfHash(k) == << <<k, "key">> >>

\* invalidateKeyCache: the entry of the hash, then that of the prefix.
Dels(k) == << <<k, "key">>, <<k, "prefix">> >>

DeleteEntries(a, dels) ==
  /\ todo' = [todo EXCEPT ![a] = dels]
  /\ pc' = [pc EXCEPT ![a] = "deleting"]

\* insertKey, for a key that has just been generated.
InsertKey(k, v) ==
  /\ k \notin born
  /\ born' = born \cup {k}
  /\ version' = [version EXCEPT ![k] = v]
  /\ Overtake(k)

Create(a, k) ==
  /\ pc[a] = "new"
  /\ InsertKey(k, 1)
  /\ DeleteEntries(a, Dels(k))
  /\ UNCHANGED <<revoked, expired, cache, lookupVars, old, copied, excused>>

\* AutoProvision counts the keys and then inserts one.
CountKeys(a) ==
  /\ pc[a] = "new" /\ Unrevoked = {}
  /\ pc' = [pc EXCEPT ![a] = "provisioning"]
  /\ UNCHANGED <<rowVars, cache, lookupVars, old, copied, todo, historyVars>>

Provision(a, k) ==
  /\ pc[a] = "provisioning"
  /\ InsertKey(k, 1)
  /\ DeleteEntries(a, Dels(k))
  /\ UNCHANGED <<revoked, expired, cache, lookupVars, old, copied, excused>>

Update(a, k) ==
  /\ pc[a] = "new"
  /\ k \in Unrevoked /\ version[k] < MaxVersion
  /\ version' = [version EXCEPT ![k] = @ + 1]
  /\ Overtake(k)
  /\ DeleteEntries(a, Dels(k))
  /\ UNCHANGED <<born, revoked, expired, cache, lookupVars, old, copied, excused>>

Revoke(a, k) ==
  /\ pc[a] = "new"
  /\ k \in Unrevoked
  /\ revoked' = revoked \cup {k}
  /\ Overtake(k)
  /\ DeleteEntries(a, Dels(k))
  /\ UNCHANGED <<born, version, expired, cache, lookupVars, old, copied, excused>>

ProvisionFails(a) ==
  /\ pc[a] = "provisioning"
  /\ pc' = [pc EXCEPT ![a] = "new"]
  /\ UNCHANGED <<rowVars, cache, lookupVars, old, copied, todo, historyVars>>

\* Rotate: the SELECT,
RotateRead(a, k) ==
  /\ pc[a] = "new"
  /\ k \in Unrevoked
  /\ old' = [old EXCEPT ![a] = k]
  /\ copied' = [copied EXCEPT ![a] = version[k]]
  /\ pc' = [pc EXCEPT ![a] = "rotating"]
  /\ UNCHANGED <<rowVars, cache, lookupVars, todo, historyVars>>

\* the UPDATE, which revokes whatever has become of the row, or whose error is
\* ignored,
RotateRevoke(a) ==
  /\ pc[a] = "rotating"
  /\ pc' = [pc EXCEPT ![a] = "inserting"]
  /\ \/ revoked' = revoked \cup {old[a]} /\ Overtake(old[a])
     \/ UNCHANGED <<revoked, unsure>>
  /\ UNCHANGED <<born, version, expired, cache, lookupVars, old, copied, todo, excused>>

Forget(a) ==
  /\ old' = [old EXCEPT ![a] = None]
  /\ copied' = [copied EXCEPT ![a] = 0]

\* the INSERT with the old key's settings and expiry,
RotateInsert(a, k) ==
  /\ pc[a] = "inserting"
  /\ InsertKey(k, copied[a])
  /\ expired' = IF old[a] \in expired THEN expired \cup {k} ELSE expired
  /\ DeleteEntries(a, Dels(old[a]) \o Dels(k))
  /\ Forget(a)
  /\ UNCHANGED <<revoked, cache, lookupVars, excused>>

Stale(e) == cache[e] \notin {NoEntry, Truth(e[1])}

\* or an error, which leaves the old key's entries.
RotateFails(a) ==
  /\ pc[a] = "inserting"
  /\ pc' = [pc EXCEPT ![a] = "new"]
  /\ excused' = excused \cup {e \in Entries(old[a]) : Stale(e)}
  /\ Forget(a)
  /\ UNCHANGED <<rowVars, cache, lookupVars, todo, unsure>>

\* The DELs, one after the other.
NextEntry(a) ==
  /\ pc[a] = "deleting"
  /\ todo' = [todo EXCEPT ![a] = Tail(@)]
  /\ pc' = IF Len(todo[a]) = 1 THEN [pc EXCEPT ![a] = "new"] ELSE pc
  /\ UNCHANGED <<rowVars, lookupVars, old, copied, unsure>>

Delete(a) == NextEntry(a) /\ RemoveEntry(Head(todo[a]))

\* An error is ignored.  So it is when the caller has gone: the DEL runs
\* under the request's context.
DeleteFails(a) ==
  /\ NextEntry(a)
  /\ excused' = IF Stale(Head(todo[a])) THEN excused \cup {Head(todo[a])} ELSE excused
  /\ UNCHANGED cache

-----------------------------------------------------------------------------
FinishLookup(l) == ReadRow(l) \/ ReadFails(l) \/ Store(l) \/ StoreFails(l)

HandlerStep(a) ==
  \/ CountKeys(a) \/ ProvisionFails(a) \/ RotateRevoke(a) \/ RotateFails(a)
  \/ \E k \in Key : \/ Create(a, k) \/ Provision(a, k) \/ Update(a, k) \/ Revoke(a, k)
                    \/ RotateRead(a, k) \/ RotateInsert(a, k)
  \/ Delete(a) \/ DeleteFails(a)

Next ==
  \/ \E l \in Lookup : FinishLookup(l) \/ \E e \in Entry : Miss(l, e)
  \/ \E e \in Entry : Expire(e)
  \/ \E k \in Key : KeyExpires(k)
  \/ \E a \in Admin : HandlerStep(a)

Spec == Init /\ [][Next]_vars

\* Requests under way proceed and TTLs end; nothing else must happen.
Fairness ==
  /\ \A l \in Lookup : WF_vars(FinishLookup(l))
  /\ \A e \in Entry : WF_vars(Expire(e))

FairSpec == Spec /\ Fairness

-----------------------------------------------------------------------------
(* Properties *)

\* The types of rows, cache, lookups and handlers.
TypeOK ==
  /\ born \subseteq Key /\ revoked \subseteq born /\ expired \subseteq born
  /\ version \in [Key -> Nat]
  /\ cache \in [Entry -> Nat \cup {NoEntry, Nil}]
  /\ step \in [Lookup -> {"idle", "missed", "read"}]
  /\ about \in [Lookup -> Entry \cup {None}]
  /\ got \in [Lookup -> Nat \cup {Nil}]
  /\ pc \in [Admin -> {"new", "provisioning", "rotating", "inserting", "deleting"}]
  /\ old \in [Admin -> Key \cup {None}]
  /\ copied \in [Admin -> Nat]
  /\ todo \in [Admin -> Seq(Entry)]
  /\ unsure \subseteq Lookup /\ excused \subseteq Entry

\* Entries that a handler is going to delete.
Due(a) ==
  {todo[a][i] : i \in DOMAIN todo[a]}
    \cup (IF pc[a] = "inserting" THEN Entries(old[a]) ELSE {})

\* An entry of Redis says what the row says, or somebody is about to delete it,
\* but for the ways the code leaves open: a lookup that read before the change
\* and stored after it, an error of the database that was cached as a refusal,
\* a DEL that failed, an INSERT of Rotate that failed, and the key's expiry.
\* No handler, in any order with the others, forgets one of the two entries.
StaleIsExplained ==
  \A e \in Entry : Stale(e) => e \in excused \/ \E a \in Admin : e \in Due(a)

\* A revoked key is refused for good within the TTLs: whatever lookups and
\* failed deletions have left behind goes, and nothing brings it back.
RevokedIsRefused ==
  \A k \in Key : k \in revoked ~> [](\A p \in Path : cache[<<k, p>>] \in {NoEntry, Nil})
=============================================================================
