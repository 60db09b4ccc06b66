--------------------------- MODULE BridgeIntents ---------------------------
(***************************************************************************)
(* Bridge intents (bridge/service.ts over db/bridge_intents.ts): a quote,   *)
(* the burn on the source chain that is bound to it, the attestation that   *)
(* is asked for, and the redemption.  Only syncBridgeIntent awaits: it      *)
(* writes what came of an intent it read before, whatever the intent has    *)
(* become meanwhile.  A burn is named by the text of its hash, which may be *)
(* spelt with small or capital digits: the texts are stored and compared as *)
(* they came.                                                               *)
(*                                                                         *)
(* External: the attestation service, whose answers may be late, and the    *)
(* redemption.                                                              *)
(***************************************************************************)
EXTENDS Naturals

CONSTANTS Intents,
          Hashes,   \* texts that TX_HASH_PATTERN accepts
          BurnOf,   \* BurnOf[h]: the transaction on the source chain that h names
          Syncs,    \* calls of syncBridgeIntent that may be in flight
          NoHash    \* no transaction recorded yet

ASSUME BridgeAssumption == NoHash \notin Hashes /\ DOMAIN BurnOf = Hashes

VARIABLES intent,   \* intent[i]: status of the intent
          source,   \* source[i]: source_tx_hash, as it was spelt
          sync,     \* sync[s]: the copy of an intent the call s has read
          attested  \* the burns the service attests by now

bridgeVars == <<intent, source, sync, attested>>

Terminal == {"completed", "failed"}
NoSync == [of |-> "nothing", read |-> "none"]

BridgeInit ==
  /\ intent = [i \in Intents |-> "none"]
  /\ source = [i \in Intents |-> NoHash]
  /\ sync = [s \in Syncs |-> NoSync]
  /\ attested = {}

QuoteBridgeIntent(i) ==
  /\ intent[i] = "none"
  /\ intent' = [intent EXCEPT ![i] = "pending"]
  /\ UNCHANGED <<source, sync, attested>>

(* Mutant: a hash that another intent has is bound to this one as well.     *)
MayBindAny(i, h) == source[i] = NoHash

(* The same hash again changes nothing; another one is refused, and so is   *)
(* one that another intent has, letter for letter.                          *)
MayBind(i, h) == source[i] = NoHash /\ \A j \in Intents : source[j] # h

RecordSourceTransaction(i, h) ==
  /\ intent[i] = "pending"
  /\ MayBind(i, h)
  /\ source' = [source EXCEPT ![i] = h]
  /\ intent' = [intent EXCEPT ![i] = "burned"]
  /\ UNCHANGED <<sync, attested>>

AttestBurn(i) ==
  /\ source[i] # NoHash
  /\ attested' = attested \cup {BurnOf[source[i]]}
  /\ UNCHANGED <<intent, source, sync>>

(* Mutant: an intent in a terminal state is asked for again.                *)
IsOpenEvenDone(i) == source[i] # NoHash
IsOpen(i) == source[i] # NoHash /\ intent[i] \notin Terminal

SyncReads(s, i) ==
  /\ sync[s] = NoSync
  /\ IsOpen(i)
  /\ sync' = [sync EXCEPT ![s] = [of |-> i, read |-> intent[i]]]
  /\ UNCHANGED <<intent, source, attested>>

SyncWrites(s, i, status) ==
  /\ sync[s].of = i
  /\ intent' = [intent EXCEPT ![i] = status]
  /\ sync' = [sync EXCEPT ![s] = NoSync]
  /\ UNCHANGED <<source, attested>>

SyncAttested(s, i) ==
  /\ source[i] # NoHash /\ BurnOf[source[i]] \in attested
  /\ SyncWrites(s, i, "attested")

(* Not attested yet: true when the service answered.                        *)
SyncUnconfirmed(s, i) == SyncWrites(s, i, "burned")

(* The service reports a failure, or cannot be reached.                     *)
SyncFails(s, i) == SyncWrites(s, i, "failed")

CompleteBridgeIntent(i) ==
  /\ intent[i] \in {"attested", "burned"}
  /\ intent' = [intent EXCEPT ![i] = "completed"]
  /\ UNCHANGED <<source, sync, attested>>

BridgeNext ==
  \/ \E i \in Intents : QuoteBridgeIntent(i) \/ CompleteBridgeIntent(i) \/ AttestBurn(i)
  \/ \E i \in Intents, h \in Hashes : RecordSourceTransaction(i, h)
  \/ \E s \in Syncs, i \in Intents :
       SyncReads(s, i) \/ SyncAttested(s, i) \/ SyncUnconfirmed(s, i) \/ SyncFails(s, i)

BridgeSpec == BridgeInit /\ [][BridgeNext]_bridgeVars

(* An intent is bound to a single burn, for good (the comment above         *)
(* recordBridgeSourceTransaction), and two intents to one burn only if they *)
(* spell its hash in two ways; and an intent leaves a terminal state only   *)
(* by a sync that had read it before it was done.                           *)
BoundAndDone ==
  [][\A i \in Intents :
       /\ source[i] # NoHash => source'[i] = source[i]
       /\ source'[i] # NoHash => \A j \in Intents \ {i} : source'[j] # source'[i]
       /\ intent[i] \in Terminal /\ intent'[i] # intent[i] =>
            \E s \in Syncs : sync[s].of = i /\ sync[s].read \notin Terminal]_bridgeVars

BurnFunds(i) == source[i] # NoHash /\ intent[i] \in {"attested", "completed"}

(* By hand: a burn funds one intent.  Violated: its hash in small digits    *)
(* is bound to one intent and in capitals to another, and both are attested.*)
BurnFundsOneIntent ==
  \A i, j \in Intents :
    BurnFunds(i) /\ BurnFunds(j) /\ BurnOf[source[i]] = BurnOf[source[j]] => i = j

(* By hand: an intent that is done stays so.  Violated by a sync that       *)
(* answers after the redemption was recorded.                               *)
DoneForGood ==
  [][\A i \in Intents : intent[i] \in Terminal => intent'[i] = intent[i]]_bridgeVars

BridgeTypeOK ==
  /\ intent \in [Intents -> {"none", "pending", "burned", "attested"} \cup Terminal]
  /\ source \in [Intents -> Hashes \cup {NoHash}]
  /\ \A s \in Syncs : sync[s] = NoSync \/ sync[s].of \in Intents
  /\ attested \subseteq {BurnOf[h] : h \in Hashes}
=============================================================================
