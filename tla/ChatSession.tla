---------------------------- MODULE ChatSession ----------------------------
(***************************************************************************)
(* One chat session: turns take its processing lease, reserve tokens for   *)
(* every call of a provider before it is made, and charge them when they   *)
(* end.  Turns outlive their lease, crash, lose answers of the database,   *)
(* and the user closes the session under them.                             *)
(***************************************************************************)
EXTENDS Naturals, Sequences

CONSTANTS
  Worker,
  Cap,          \* CHAT_SESSION_TOKEN_CAP
  UpperBound,   \* the tokens one call of a provider can cost
  Turns,        \* bound: turns that are stored
  Troubles,     \* bound: crashes, failed calls, late turns
  None,         \* no owner
  Gone          \* the owner id of a turn that ended without giving the lease back

VARIABLES
  chat,         \* the ConversationHistory document
  turns,        \* turns[w]: the message server w works on, and its claim
  used,         \* tokens that providers have really been asked for
  troubles

chatVars == <<chat, turns, used, troubles>>

\* numbers: message_sequence of the stored turns; a turn's two messages count as one.
TypeOK ==
  /\ chat \in [spent : Nat, reserved : Nat, owner : Worker \cup {None, Gone}, live : BOOLEAN, active : BOOLEAN,
               sequence : Nat, numbers : Seq(Nat)]
  /\ turns \in [Worker -> [at : {"idle", "claim", "reserve", "call", "complete", "release"}, late : BOOLEAN, saw : Nat,
                           reserved : Nat, held : Nat, tried : BOOLEAN, failed : BOOLEAN, tokens : Nat]]
  /\ used \in Nat
  /\ troubles \in 0 .. Troubles

Idle == [at |-> "idle", late |-> FALSE, saw |-> 0, reserved |-> 0, held |-> 0, tried |-> FALSE, failed |-> FALSE, tokens |-> 0]

Init ==
  /\ chat = [spent |-> 0, reserved |-> 0, owner |-> None, live |-> FALSE, active |-> TRUE, sequence |-> 0, numbers |-> <<>>]
  /\ turns = [w \in Worker |-> Idle]
  /\ used = 0 /\ troubles = 0

-----------------------------------------------------------------------------

Trouble == troubles < Troubles /\ troubles' = troubles + 1

At(w, place) == turns[w].at = place
Goto(w, place) == turns' = [turns EXCEPT ![w].at = place]
Ends(w) == turns' = [turns EXCEPT ![w] = Idle]

\* The lease is free for anyone, and what was reserved under it is charged.
Settled == [chat EXCEPT !.spent = @ + chat.reserved, !.reserved = 0, !.owner = None, !.live = FALSE]

\* settleExpiredReservation and the claim after it look at the lease with one reading of the clock.
Settle(w) ==
  LET late == chat.owner # None /\ ~chat.live IN
  /\ At(w, "idle") /\ chat.active /\ Len(chat.numbers) < Turns
  /\ chat' = IF late /\ chat.reserved > 0 THEN Settled ELSE chat
  /\ turns' = [turns EXCEPT ![w].at = "claim", ![w].late = late]
  /\ UNCHANGED <<used, troubles>>

Claim(w) ==
  /\ At(w, "claim")
  /\ IF chat.active /\ (chat.owner = None \/ (turns[w].late /\ ~chat.live))
     THEN /\ chat' = [chat EXCEPT !.owner = w, !.live = TRUE]
          /\ turns' = [turns EXCEPT ![w].at = "reserve", ![w].saw = chat.sequence, ![w].reserved = chat.reserved]
     ELSE chat' = chat /\ Ends(w)
  /\ UNCHANGED <<used, troubles>>

Holds(w) == chat.active /\ chat.owner = w

\* Mutant of Affordable: what others have reserved is not counted.
AffordableAlone == chat.spent + UpperBound <= Cap

Affordable == chat.spent + chat.reserved + UpperBound <= Cap

\* reserveChatProviderBudget, before every call; without it the turn ends in the answer of the template.
Reserve(w) ==
  /\ At(w, "reserve")
  /\ IF Holds(w) /\ Affordable
     THEN /\ chat' = [chat EXCEPT !.reserved = @ + UpperBound]
          /\ \/ /\ turns' = [turns EXCEPT ![w].at = "call", ![w].held = @ + UpperBound, ![w].reserved = chat'.reserved]
                /\ troubles' = troubles
             \/ Trouble /\ Goto(w, "release")
     ELSE chat' = chat /\ Goto(w, "complete") /\ troubles' = troubles
  /\ UNCHANGED used

\* A provider answers, at a cost that it may not report, or fails, and one other may be asked.
Call(w) ==
  /\ At(w, "call")
  /\ \E cost \in 1 .. UpperBound :
       /\ used' = used + cost
       /\ \/ \E tokens \in {0, cost} :
               turns' = [turns EXCEPT ![w] = [@ EXCEPT !.at = "complete", !.tried = TRUE, !.tokens = tokens]]
          \/ \E place \in {"complete"} \cup (IF turns[w].failed THEN {} ELSE {"reserve"}) :
               turns' = [turns EXCEPT ![w] = [@ EXCEPT !.at = place, !.tried = TRUE, !.failed = TRUE]]
  /\ UNCHANGED <<chat, troubles>>

\* The whole reservation after a failed attempt or without a report of the usage.
Charge(w) == IF turns[w].failed \/ turns[w].tokens = 0 THEN turns[w].held ELSE turns[w].tokens

Rest(w) == IF chat.reserved > turns[w].held THEN chat.reserved - turns[w].held ELSE 0

\* completeChatTurn: one update; its answer may be lost.
Complete(w) ==
  /\ At(w, "complete")
  /\ IF Holds(w)
     THEN /\ chat' = [chat EXCEPT !.numbers = Append(@, turns[w].saw + 1), !.sequence = @ + 1, !.spent = @ + Charge(w),
                                  !.reserved = Rest(w), !.owner = None, !.live = FALSE]
          /\ (Ends(w) /\ troubles' = troubles) \/ (Goto(w, "release") /\ Trouble)
     ELSE chat' = chat /\ Goto(w, "release") /\ troubles' = troubles
  /\ UNCHANGED used

\* The lease and the reservation, which is charged if a provider was asked.
Returned(w) ==
  LET held == turns[w].held saw == turns[w].reserved IN
  [chat EXCEPT !.owner = None, !.live = FALSE,
               !.spent = IF turns[w].tried THEN @ + held ELSE @,
               !.reserved = IF held = 0 THEN @ ELSE IF saw > held THEN saw - held ELSE 0]

\* releaseChatSession, whose failure is ignored.
Release(w) ==
  /\ At(w, "release")
  /\ \/ chat' = (IF chat.owner = w THEN Returned(w) ELSE chat) /\ troubles' = troubles
     \/ Trouble /\ chat' = [chat EXCEPT !.owner = IF @ = w THEN Gone ELSE @]
  /\ Ends(w)
  /\ UNCHANGED used

\* The heartbeat renews the lease, also one that has run out, as long as the session is the turn's.
Renew(w) ==
  /\ turns[w].at \in {"reserve", "call", "complete"} /\ Holds(w) /\ ~chat.live
  /\ chat' = [chat EXCEPT !.live = TRUE]
  /\ UNCHANGED <<turns, used, troubles>>

\* The heartbeat has found the session lost, or failed: the turn ends after its call.
GiveUp(w) ==
  /\ turns[w].at \in {"reserve", "complete"}
  /\ IF Holds(w) THEN Trouble ELSE troubles' = troubles
  /\ Goto(w, "release")
  /\ UNCHANGED <<chat, used>>

\* The lease of a turn at work runs out only if its heartbeat is late.
LeaseEnds ==
  /\ chat.live
  /\ IF chat.owner \in Worker THEN Trouble ELSE troubles' = troubles
  /\ chat' = [chat EXCEPT !.live = FALSE]
  /\ UNCHANGED <<turns, used>>

\* The user closes the session: what is reserved is charged.
Close ==
  /\ chat.active
  /\ chat' = [Settled EXCEPT !.active = FALSE]
  /\ UNCHANGED <<turns, used, troubles>>

Crash(w) ==
  /\ ~At(w, "idle") /\ Trouble
  /\ Ends(w)
  /\ chat' = [chat EXCEPT !.owner = IF @ = w THEN Gone ELSE @]
  /\ UNCHANGED used

Next ==
  \/ \E w \in Worker :
       \/ Settle(w) \/ Claim(w) \/ Reserve(w) \/ Call(w) \/ Complete(w) \/ Release(w)
       \/ Renew(w) \/ GiveUp(w) \/ Crash(w)
  \/ LeaseEnds \/ Close

-----------------------------------------------------------------------------

\* Every token a provider was asked for is counted against the session, and what is spent and
\* reserved never exceeds its cap, through failed attempts, lost answers, takeovers of the lease,
\* crashes and closing, all of which settle reservations (reserveChatProviderBudget).
BudgetHolds == used <= chat.spent + chat.reserved /\ chat.spent + chat.reserved <= Cap
=============================================================================
