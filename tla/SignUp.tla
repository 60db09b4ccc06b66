------------------------------- MODULE SignUp -------------------------------
(***************************************************************************)
(* Accounts of the cloud (cloud/src/accounts.ts): signup looks the email   *)
(* up and then makes several inserts, without a transaction, the API key   *)
(* last; setWebhook reads the endpoint and replaces or inserts it.  Each   *)
(* query ends an action, any may fail, and requests run together.  No      *)
(* index makes emails or webhooks unique (cloud/migrations), and getWebhook*)
(* answers the oldest row of the merchant.  An answer whose body is lost   *)
(* reads as no row (supabase-db.ts:90).                                    *)
(*                                                                         *)
(* External: what a merchant signs up with, already checked by the         *)
(* synchronous part of signup.                                             *)
(***************************************************************************)
EXTENDS Integers, Sequences, FiniteSetsExt

CONSTANTS Signups,       \* the calls of signup, and the merchants they make
          EmailOf,       \* EmailOf[r]
          Wants,         \* Wants[r]: the receive methods and webhook it gives
          Setters,       \* the calls of setWebhook
          SetterOf       \* SetterOf[w]: whose webhook it sets

ASSUME SignUpAssumption ==
  /\ SetterOf \in [Setters -> Signups]
  /\ \A r \in Signups : Wants[r] \subseteq {"btc", "base", "webhook"}

VARIABLES step,          \* step[r]: the next insert of r, or how it ended
          rows,          \* rows[r]: the rows stored for the merchant r
          shown,         \* sign-ups whose key was sent to the merchant
          before,        \* history: before[r]: those with its email when r looked
          misread,       \* history: sign-ups that read a lost body as nobody
          hooks,         \* hooks[r]: r's webhook rows, oldest first, by secret
          setting        \* setting[w]: where the call w is, and what it found

accountVars == <<step, rows, shown, before, misread, hooks, setting>>

Signed == {r \in Signups : "merchant" \in rows[r]}

AccountInit ==
  /\ step = [r \in Signups |-> "find"]
  /\ rows = [r \in Signups |-> {}]
  /\ shown = {}
  /\ before = [r \in Signups |-> {}] /\ misread = {}
  /\ hooks = [r \in Signups |-> <<>>]
  /\ setting = [w \in Setters |-> "idle"]

Holders(r) == {q \in Signed : EmailOf[q] = EmailOf[r]}

(* findMerchantByEmail: 409 if there is one.                               *)
FindEmail(r) ==
  /\ step[r] = "find"
  /\ before' = [before EXCEPT ![r] = Holders(r)]
  /\ step' = [step EXCEPT ![r] = IF Holders(r) # {} THEN "taken" ELSE "merchant"]
  /\ UNCHANGED <<rows, shown, misread, hooks, setting>>

(* Its answer arrives without its body.                                    *)
MisreadEmail(r) ==
  /\ step[r] = "find"
  /\ before' = [before EXCEPT ![r] = Holders(r)]
  /\ misread' = misread \cup {r}
  /\ step' = [step EXCEPT ![r] = "merchant"]
  /\ UNCHANGED <<rows, shown, hooks, setting>>

(* Mutant: the key is made as soon as there is a merchant.                 *)
InsertsKeyFirst == <<"merchant", "key", "btc", "base", "webhook">>

(* The inserts, in the order of the code; those not asked for are skipped, *)
(* and the next is the first that is missing.                              *)
Inserts == <<"merchant", "btc", "base", "webhook", "key">>

Asked(r) == {"merchant", "key"} \cup Wants[r]
Missing(r) == {i \in DOMAIN Inserts : Inserts[i] \in Asked(r) \ rows[r]}

NextInsert(r) == Inserts[Min(Missing(r))]

Stores(r) ==
  /\ step[r] = "merchant"
  /\ Missing(r) # {}
  /\ rows' = [rows EXCEPT ![r] = @ \cup {NextInsert(r)}]
  /\ hooks' = IF NextInsert(r) = "webhook" THEN [hooks EXCEPT ![r] = Append(@, r)]
                                           ELSE hooks

Insert(r) ==
  /\ Stores(r)
  /\ IF NextInsert(r) = "key"
       THEN shown' = shown \cup {r} /\ step' = [step EXCEPT ![r] = "done"]
       ELSE UNCHANGED <<shown, step>>
  /\ UNCHANGED <<before, misread, setting>>

(* A query throws, before or after it took effect: 500, and what was       *)
(* inserted stays.                                                         *)
SignupFails(r) ==
  /\ step[r] \in {"find", "merchant"}
  /\ Stores(r) \/ UNCHANGED <<rows, hooks>>
  /\ step' = [step EXCEPT ![r] = "failed"]
  /\ UNCHANGED <<shown, before, misread, setting>>

(* setWebhook of a merchant who holds a key: getWebhook, which may lose    *)
(* its body, too.                                                          *)
GetWebhook(w) ==
  /\ setting[w] = "idle" /\ SetterOf[w] \in shown
  /\ \E found \in {hooks[SetterOf[w]], <<>>} :
       setting' = [setting EXCEPT ![w] = IF found = <<>> THEN "insert" ELSE "update"]
  /\ UNCHANGED <<step, rows, shown, before, misread, hooks>>

(* Mutant: the endpoint is added, whether or not there is one.             *)
PutAnother(w) == Append(hooks[SetterOf[w]], w)

Put(w) ==
  IF setting[w] = "insert" THEN Append(hooks[SetterOf[w]], w)
  ELSE [hooks[SetterOf[w]] EXCEPT ![1] = w]

(* The answer shows the fresh secret, once.                                *)
PutWebhook(w) ==
  /\ setting[w] \in {"insert", "update"}
  /\ hooks' = [hooks EXCEPT ![SetterOf[w]] = Put(w)]
  /\ setting' = [setting EXCEPT ![w] = "done"]
  /\ UNCHANGED <<step, rows, shown, before, misread>>

SetWebhookFails(w) ==
  /\ setting[w] \in {"insert", "update"}
  /\ hooks' \in {hooks, [hooks EXCEPT ![SetterOf[w]] = Put(w)]}
  /\ setting' = [setting EXCEPT ![w] = "failed"]
  /\ UNCHANGED <<step, rows, shown, before, misread>>

AccountNext ==
  \/ \E r \in Signups : FindEmail(r) \/ MisreadEmail(r) \/ Insert(r) \/ SignupFails(r)
  \/ \E w \in Setters : GetWebhook(w) \/ PutWebhook(w) \/ SetWebhookFails(w)

AccountSpec == AccountInit /\ [][AccountNext]_accountVars

-----------------------------------------------------------------------------
AccountTypeOK ==
  /\ step \in [Signups -> {"find", "taken", "merchant", "done", "failed"}]
  /\ rows \in [Signups -> SUBSET {"merchant", "btc", "base", "webhook", "key"}]
  /\ shown \subseteq Signups /\ misread \subseteq Signups
  /\ before \in [Signups -> SUBSET Signups]
  /\ hooks \in [Signups -> Seq(Signups \cup Setters)]
  /\ setting \in [Setters -> {"idle", "insert", "update", "done", "failed"}]

(* Whoever was shown a key has an account as he asked for it, whichever    *)
(* insert of it or of another failed, and it is the only one of its email, *)
(* unless the two sign-ups overlapped, neither stored when the other       *)
(* looked, or the lookup of the later one lost its body.                   *)
KeyOpensWholeAccount ==
  \A r \in shown :
    /\ Asked(r) \subseteq rows[r]
    /\ \A q \in Signed \ {r} : EmailOf[q] = EmailOf[r] =>
         (r \in before[q] => q \in misread) /\ (q \in before[r] => r \in misread)

(* "An account with this email already exists" (accounts.ts:125): there is *)
(* one whose key was shown, or will be.  False: a sign-up that failed after *)
(* its first insert left a merchant nobody can open.                       *)
TakenHasKey ==
  \A r \in Signups : step[r] = "taken" =>
    \E q \in Signups \ {r} :
      EmailOf[q] = EmailOf[r] /\ (q \in shown \/ step[q] = "merchant")

(* "Set or replace the webhook endpoint" (accounts.ts:223): there is one.  *)
(* False: two calls that find none insert two, and the older is used.      *)
OneWebhook == \A r \in Signups : Len(hooks[r]) <= 1
=============================================================================
