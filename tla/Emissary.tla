------------------------------ MODULE Emissary ------------------------------
(***************************************************************************)
(* The collective's gateway: roles/emissary/emissary_agent.c.  It limits the *)
(* rate of requests, passes specs on, keeps the latest results of the oracle *)
(* and calls webhooks for them.                                             *)
(*                                                                         *)
(* One thread does all of it: while a listing of the oracle is worked off    *)
(* and webhooks are called, no request is answered; but the oracle goes on.  *)
(* A program is one of the hashes the oracle lists, a time is the second it  *)
(* falls in.  Abstracted: the events a webhook asks for (all get all), the   *)
(* numbers of a result beyond their presence, authentication, and the calls  *)
(* that only read or pass a request on to the sentient or the oracle.        *)
(***************************************************************************)
EXTENDS Naturals, Sequences

CONSTANTS
  Clients,      \* addresses requests come from
  Programs,
  Specs,        \* what clients ask for
  MaxRate,      \* MAX_RATE_ENTRIES
  MaxRPS,       \* RATE_MAX_RPS
  MaxResults,   \* MAX_RESULTS
  MaxWebhooks,  \* MAX_WEBHOOKS
  MaxAttempts,  \* the 3 of webhook_fire()
  Prompt,       \* the webhooks that answer whatever reaches them
  MaxSpecs      \* bound on specs under way, for model checking only

ASSUME EmissaryAssumption ==
  /\ {MaxRate, MaxRPS, MaxResults, MaxWebhooks, MaxAttempts} \subseteq Nat \ {0}
  /\ Prompt \subseteq 1..MaxWebhooks /\ MaxSpecs \in Nat

VARIABLES
  rate,      \* g_rate
  slot,      \* the second: the slot of g_rate it stands for
  hooks,     \* g_webhooks, by their ids: which are active
  results,   \* g_results
  asking,    \* poll_oracle(): what is left of the listing
  firing,    \* webhook_fire(): the event, the webhook and the attempt
  specs,     \* published on nml/spec
  admitted,  \* ghost: requests let in this second, of addresses not displaced
  copies     \* ghost: POSTs that reached a webhook since a result was recorded

gateVars == <<rate, slot, admitted>>
resultVars == <<results, asking, firing, copies>>
emissaryVars == <<gateVars, resultVars, hooks, specs>>

Results == INSTANCE Ring WITH Capacity <- MaxResults

NotFiring == [event |-> "none", hook |-> 0, attempt |-> 0]
Enforcement == "enforce"

NoCopies == [h \in 1..MaxWebhooks |-> [p \in Programs |-> 0]]

EmissaryInit ==
  /\ rate = <<>> /\ slot = 1
  /\ hooks = <<>>
  /\ results = Results!EmptyRing
  /\ asking = {} /\ firing = NotFiring
  /\ specs = <<>>
  /\ admitted = [c \in Clients |-> 0]
  /\ copies = NoCopies

-----------------------------------------------------------------------------
(* rate_check() *)

Idle == asking = {} /\ firing = NotFiring

EntriesOf(c) == {i \in DOMAIN rate : rate[i].ip = c}

\* One request more than the limit.
BugWithin(entry) == ~entry.fresh \/ entry.count <= MaxRPS

Within(entry) == ~entry.fresh \/ entry.count < MaxRPS

Counted(entry) ==
  [entry EXCEPT !.fresh = TRUE, !.count = IF entry.fresh THEN @ + 1 ELSE 1]

NewEntry(c) == [ip |-> c, fresh |-> TRUE, count |-> 1]

\* With the table full a new address displaces the one in the second's slot.
WithAddress(c) == IF Len(rate) < MaxRate THEN Append(rate, NewEntry(c))
                  ELSE [rate EXCEPT ![slot] = NewEntry(c)]

Present(table, c) == \E i \in DOMAIN table : table[i].ip = c

Admit(c) ==
  /\ IF EntriesOf(c) # {}
     THEN \E i \in EntriesOf(c) :
            Within(rate[i]) /\ rate' = [rate EXCEPT ![i] = Counted(@)]
     ELSE rate' = WithAddress(c)
  /\ admitted' = [d \in Clients |-> IF ~Present(rate', d) THEN 0
                                    ELSE IF d = c THEN admitted[d] + 1
                                    ELSE admitted[d]]
  /\ UNCHANGED slot

\* The clock moves on by a second or more: every window is over, and another
\* slot may be the one to be displaced.
Tick == /\ slot' \in 1..MaxRate
        /\ rate' = [i \in DOMAIN rate |-> [rate[i] EXCEPT !.fresh = FALSE]]
        /\ admitted' = [c \in Clients |-> 0]
        /\ UNCHANGED <<resultVars, hooks, specs>>

-----------------------------------------------------------------------------
(* handle_http() *)

\* POST /spec, and POST /infer when the code model has answered with a text.
\* The answer is "queued" also when the send buffer was full.
PostSpec(c, spec) ==
  /\ Idle /\ Admit(c)
  /\ \/ Len(specs) < MaxSpecs /\ specs' = Append(specs, spec)
     \/ UNCHANGED specs
  /\ UNCHANGED <<resultVars, hooks>>

\* POST /webhooks: a place is given once.
PostWebhook(c) ==
  /\ Idle /\ Admit(c)
  /\ hooks' = IF Len(hooks) >= MaxWebhooks THEN hooks ELSE Append(hooks, TRUE)
  /\ UNCHANGED <<resultVars, specs>>

\* DELETE /webhooks/<id>
DeleteWebhook(c, h) ==
  /\ Idle /\ Admit(c)
  /\ hooks' = IF h \in DOMAIN hooks THEN [hooks EXCEPT ![h] = FALSE] ELSE hooks
  /\ UNCHANGED <<resultVars, specs>>

Request(c) == \/ \E spec \in Specs : PostSpec(c, spec)
              \/ PostWebhook(c)
              \/ \E h \in 1..MaxWebhooks : DeleteWebhook(c, h)

-----------------------------------------------------------------------------
(* poll_oracle() and webhook_fire() *)

\* The oracle lists what it has assessed and not evicted.
Poll(listing) ==
  /\ Idle /\ listing # {}
  /\ asking' = listing
  /\ UNCHANGED <<gateVars, results, firing, copies, hooks, specs>>

Recorded == {results.entries[i] : i \in DOMAIN results.entries}

\* Only the result recorded last is compared.
BugKnown(p) == /\ results.entries # <<>>
               /\ Results!Newest(results) = p

Known(p) == p \in Recorded

Fire(event) == firing' = [event |-> event, hook |-> 1, attempt |-> 1]

\* One of the listing: known, unobtainable (to be asked for at the next poll),
\* or recorded, and the webhooks are called for it.  What is recorded of one
\* that the oracle has evicted in the meantime are no numbers but an error body.
Ask(p) ==
  /\ p \in asking /\ firing = NotFiring
  /\ asking' = asking \ {p}
  /\ \/ UNCHANGED <<results, firing, copies>>
     \/ /\ ~Known(p)
        /\ results' = Results!RingAdd(results, p)
        /\ Fire(p)
        /\ copies' = [h \in 1..MaxWebhooks |->
                       [q \in Programs |->
                         IF q \in Recorded /\ q \in Recorded'
                         THEN copies[h][q] ELSE 0]]
  /\ UNCHANGED <<gateVars, hooks, specs>>

HearEnforce == /\ Idle /\ Fire(Enforcement)
               /\ UNCHANGED <<gateVars, results, asking, copies, hooks, specs>>

NextHook == [firing EXCEPT !.hook = @ + 1, !.attempt = 1]

IsOver(outcome) == outcome = "answered" \/ firing.attempt = MaxAttempts

Outcomes(h) == IF h \in Prompt THEN {"refused", "answered"}
               ELSE {"refused", "answered", "unanswered"}

Attempt(outcome) ==
  /\ firing.hook \in DOMAIN hooks /\ hooks[firing.hook]
  /\ outcome \in Outcomes(firing.hook)
  /\ firing' = IF IsOver(outcome) THEN NextHook
               ELSE [firing EXCEPT !.attempt = @ + 1]
  /\ copies' = IF outcome = "refused" \/ firing.event = Enforcement THEN copies
               ELSE [copies EXCEPT ![firing.hook][firing.event] = @ + 1]
  /\ UNCHANGED <<gateVars, results, asking, hooks, specs>>

SkipHook == /\ firing.hook \in DOMAIN hooks /\ ~hooks[firing.hook]
            /\ firing' = NextHook
            /\ UNCHANGED <<gateVars, results, asking, copies, hooks, specs>>

Fired == /\ firing.hook = Len(hooks) + 1
         /\ firing' = NotFiring
         /\ UNCHANGED <<gateVars, results, asking, copies, hooks, specs>>

\* The process dies anywhere and is started again: all it knew is gone.
Restart == /\ rate' = <<>> /\ hooks' = <<>> /\ results' = Results!EmptyRing
           /\ asking' = {} /\ firing' = NotFiring
           /\ admitted' = [c \in Clients |-> 0] /\ copies' = NoCopies
           /\ UNCHANGED <<slot, specs>>

EmissaryNext ==
  \/ \E c \in Clients : Request(c)
  \/ Tick
  \/ \E listing \in SUBSET Programs : Poll(listing)
  \/ \E p \in Programs : Ask(p)
  \/ HearEnforce
  \/ \E outcome \in {"refused", "answered", "unanswered"} : Attempt(outcome)
  \/ SkipHook
  \/ Fired
  \/ Restart

-----------------------------------------------------------------------------
(* Correctness *)

\* No address that keeps its slot gets more than RATE_MAX_RPS requests through
\* in a second of the clock, whatever others ask (rate_check()).
RateHolds == \A c \in Clients : admitted[c] <= MaxRPS

\* As long as a result is held, a webhook that answers what reaches it was sent
\* the result once, and any other at most as often as there are attempts,
\* however often the oracle lists it again (poll_oracle(), webhook_fire()).
CopiesAreFew ==
  \A h \in 1..MaxWebhooks, p \in Programs :
    copies[h][p] <= IF h \in Prompt THEN 1 ELSE MaxAttempts
=============================================================================
