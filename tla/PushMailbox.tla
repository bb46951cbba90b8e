----------------------------- MODULE PushMailbox -----------------------------
(***************************************************************************)
(* What a Device promises to the threads that hand it a push               *)
(* (Device::sendPushTo): a mailbox with room for one command.  A command   *)
(* is accepted only when every earlier one has been written to the push    *)
(* socket, the commands are written in the order they were accepted, each  *)
(* at most once, and none after the push thread has ended.                 *)
(***************************************************************************)
EXTENDS Sequences

CONSTANT Commands

VARIABLES
  accepted,   \* the commands accepted so far, in order
  delivered,  \* the commands written to the push socket so far
  closed      \* the push thread has ended

mailboxVars == <<accepted, delivered, closed>>

MailboxInit ==
  /\ accepted = << >>
  /\ delivered = << >>
  /\ closed = FALSE

Accept(c) ==
  /\ accepted = delivered
  /\ accepted' = Append(accepted, c)
  /\ UNCHANGED <<delivered, closed>>

Deliver ==
  /\ ~closed
  /\ accepted # delivered
  /\ delivered' = accepted
  /\ UNCHANGED <<accepted, closed>>

Close ==
  /\ closed' = TRUE
  /\ UNCHANGED <<accepted, delivered>>

MailboxNext == Deliver \/ Close \/ \E c \in Commands : Accept(c)

MailboxSpec == MailboxInit /\ [][MailboxNext]_mailboxVars
=============================================================================
