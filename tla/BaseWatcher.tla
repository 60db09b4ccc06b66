----------------------------- MODULE BaseWatcher -----------------------------
(***************************************************************************)
(* BaseWatcher (listener/src/base-watcher.ts) as the cloud runs it         *)
(* (cloud/src/webhook-fleet.ts): every poll lists the pending Base         *)
(* invoices of all merchants and confirms those whose address holds their  *)
(* amount.  An xpub invoice has an address of its own; the fixed-address   *)
(* invoices of a merchant share his, and their own watchers are beside.    *)
(* Each await ends an action; polls do not overlap.                        *)
(*                                                                         *)
(* External: payers, merchants who withdraw, and the RPC endpoint, which   *)
(* answers with the balance or fails.                                      *)
(***************************************************************************)
EXTENDS Integers, FiniteSets

CONSTANTS Bills,         \* Base invoices, by number
          Addresses,
          AddressOf,     \* AddressOf[i]: the address the invoice i is paid to
          Price,         \* Price[i]: its amount, in base units
          MaxWithdrawals,\* bound: times an address is emptied
          MaxDeaths      \* bound: deaths of the process

ASSUME BaseAssumption ==
  /\ Bills \subseteq Nat
  /\ AddressOf \in [Bills -> Addresses] /\ Price \in [Bills -> Nat \ {0}]
  /\ MaxWithdrawals \in Nat /\ MaxDeaths \in Nat

VARIABLES billed,        \* billed[i]: "new", "pending" or "confirmed"
          late,          \* invoices whose expires_at has passed
          paid,          \* history: invoices that were paid
          balance,       \* balance[a]: USDC held by the address a
          withdrawals,
          polling,       \* "idle", "next", "store" or "emit"
          listed,        \* pending, of the poll: invoices still to be checked
          checked,       \* the invoice being checked
          told,          \* told[i]: invoice.confirmed events recorded
          deaths

baseVars == <<billed, late, paid, balance, withdrawals, polling, listed, checked,
              told, deaths>>
worldVars == <<late, paid, balance, withdrawals>>

BaseInit ==
  /\ billed = [i \in Bills |-> "new"]
  /\ late = {} /\ paid = {}
  /\ balance = [a \in Addresses |-> 0]
  /\ withdrawals = 0
  /\ polling = "idle" /\ listed = {}
  /\ checked \in Bills
  /\ told = [i \in Bills |-> 0]
  /\ deaths = 0

IssueBill(i) ==
  /\ billed[i] = "new"
  /\ billed' = [billed EXCEPT ![i] = "pending"]
  /\ UNCHANGED <<worldVars, polling, listed, checked, told, deaths>>

(* External: the payer sends the amount; he does so once.                  *)
PayBill(i) ==
  /\ billed[i] # "new" /\ i \notin paid
  /\ paid' = paid \cup {i}
  /\ balance' = [balance EXCEPT ![AddressOf[i]] = @ + Price[i]]
  /\ UNCHANGED <<billed, late, withdrawals, polling, listed, checked, told, deaths>>

(* External: a merchant empties an address.                                *)
Withdraw(a) ==
  /\ balance[a] > 0 /\ withdrawals < MaxWithdrawals
  /\ withdrawals' = withdrawals + 1
  /\ balance' = [balance EXCEPT ![a] = 0]
  /\ UNCHANGED <<billed, late, paid, polling, listed, checked, told, deaths>>

BecomeLate(i) ==
  /\ billed[i] # "new" /\ i \notin late
  /\ late' = late \cup {i}
  /\ UNCHANGED <<billed, paid, balance, withdrawals, polling, listed, checked, told,
                 deaths>>

(* Mutant: invoices are listed whatever their status.                      *)
StartPollOfAll ==
  /\ polling = "idle"
  /\ listed' = {i \in Bills : billed[i] # "new" /\ i \notin late}
  /\ polling' = "next"
  /\ UNCHANGED <<billed, worldVars, checked, told, deaths>>

(* pollOnce: listPendingInvoices({chain: 'base'}).                         *)
StartPoll ==
  /\ polling = "idle"
  /\ listed' = {i \in Bills : billed[i] = "pending" /\ i \notin late}
  /\ polling' = "next"
  /\ UNCHANGED <<billed, worldVars, checked, told, deaths>>

(* The invoices are checked in the order of the query, which names none:   *)
(* it is taken to be the same each time, that of their numbers.            *)
IsNext(i) == polling = "next" /\ i \in listed /\ \A j \in listed : i <= j

(* Mutant: an invoice that could not be checked ends the poll.             *)
RpcFailsEndsPoll(i) ==
  /\ IsNext(i)
  /\ listed' = {}
  /\ UNCHANGED <<billed, worldVars, polling, checked, told, deaths>>

(* balanceOf is null, or a query for i throws: the next tick retries i.  A *)
(* listing that lost its body is as if this came for each of its invoices. *)
CheckFails(i) ==
  /\ IsNext(i)
  /\ listed' = listed \ {i}
  /\ UNCHANGED <<billed, worldVars, polling, checked, told, deaths>>

Covered(i) == balance[AddressOf[i]] >= Price[i]

FindUnpaid(i) ==
  /\ IsNext(i)
  /\ ~Covered(i)
  /\ listed' = listed \ {i}
  /\ UNCHANGED <<billed, worldVars, polling, checked, told, deaths>>

FindCovered(i) ==
  /\ IsNext(i)
  /\ Covered(i)
  /\ polling' = "store"
  /\ checked' = i
  /\ listed' = listed \ {i}
  /\ UNCHANGED <<billed, worldVars, told, deaths>>

(* updateInvoiceStatus(id, 'confirmed'), whatever the row is by now, and   *)
(* then emitConfirmedWebhook, under a random id.                           *)
Stored == [billed EXCEPT ![checked] = "confirmed"]
Emitted == [told EXCEPT ![checked] = @ + 1]

StoreBill ==
  /\ polling = "store"
  /\ billed' = Stored
  /\ polling' = "emit"
  /\ UNCHANGED <<worldVars, listed, checked, told, deaths>>

EmitBill ==
  /\ polling = "emit"
  /\ told' = Emitted
  /\ polling' = "next"
  /\ UNCHANGED <<billed, worldVars, listed, checked, deaths>>

(* A write of the poll throws, before or after it took effect: the invoice *)
(* is left as it then is, and the poll goes on (bound: counted with the    *)
(* deaths).                                                                *)
WriteFails ==
  /\ polling \in {"store", "emit"} /\ deaths < MaxDeaths
  /\ deaths' = deaths + 1
  /\ polling' = "next"
  /\ \/ UNCHANGED <<billed, told>>
     \/ polling = "store" /\ billed' = Stored /\ UNCHANGED told
     \/ polling = "emit" /\ told' = Emitted /\ UNCHANGED billed
  /\ UNCHANGED <<worldVars, listed, checked>>

EndPoll ==
  /\ polling = "next" /\ listed = {}
  /\ polling' = "idle"
  /\ UNCHANGED <<billed, worldVars, listed, checked, told, deaths>>

Die ==
  /\ deaths < MaxDeaths
  /\ deaths' = deaths + 1
  /\ polling' = "idle" /\ listed' = {}
  /\ UNCHANGED <<billed, worldVars, checked, told>>

CheckBill(i) == CheckFails(i) \/ FindUnpaid(i) \/ FindCovered(i)
PollStep == StartPoll \/ StoreBill \/ EmitBill \/ EndPoll

BaseNext ==
  \/ \E i \in Bills : IssueBill(i) \/ PayBill(i) \/ BecomeLate(i) \/ CheckBill(i)
  \/ \E a \in Addresses : Withdraw(a)
  \/ PollStep \/ WriteFails \/ Die

BaseSpec == BaseInit /\ [][BaseNext]_baseVars

(* The interval fires and an RPC call ends, and of those asked again and   *)
(* again one is answered.                                                  *)
BaseFairness ==
  /\ WF_baseVars(PollStep)
  /\ \A i \in Bills : WF_baseVars(CheckBill(i)) /\ SF_baseVars(FindCovered(i))

-----------------------------------------------------------------------------
BaseTypeOK ==
  /\ billed \in [Bills -> {"new", "pending", "confirmed"}]
  /\ late \subseteq Bills /\ paid \subseteq Bills /\ listed \subseteq Bills
  /\ balance \in [Addresses -> Nat] /\ told \in [Bills -> Nat]
  /\ {withdrawals, deaths} \subseteq Nat
  /\ polling \in {"idle", "next", "store", "emit"}
  /\ checked \in Bills

(* An invoice is announced once at most and only when it is stored as      *)
(* confirmed, over failing writes and deaths between the two; and one      *)
(* that shares its address with no other is confirmed only if it was paid, *)
(* although what is looked at is a balance, before the await, and not a    *)
(* payment.                                                                *)
Alone(i) == \A j \in Bills \ {i} : AddressOf[j] # AddressOf[i]

AnnouncedOnceAndPaid ==
  \A i \in Bills :
    /\ told[i] <= 1 /\ (told[i] = 1 => billed[i] = "confirmed")
    /\ billed[i] = "confirmed" /\ Alone(i) => i \in paid

(* A payment that stays on its address is noticed before the invoice       *)
(* expires, or the invoice expires first: an endpoint that fails for one   *)
(* invoice, an error or a death of the process delays it, but it is not    *)
(* forgotten; and every confirmed invoice is announced, except where one   *)
(* of those came in between.                                               *)
Awaits(i) == i \in paid /\ billed[i] = "pending"

PaidIsAnnounced ==
  \A i \in Bills :
    Awaits(i) ~> \/ told[i] > 0
                 \/ i \in late \/ withdrawals > 0
                 \/ billed[i] = "confirmed" /\ deaths > 0

(* "Each invoice is told apart by a nonce in the low decimals of the       *)
(* amount" (cloud/src/fixed-fleet.ts:4): an invoice is confirmed for a     *)
(* payment of it.  False: whatever a shared address holds will do.         *)
ConfirmedWasPaid == \A i \in Bills : billed[i] = "confirmed" => i \in paid
=============================================================================
