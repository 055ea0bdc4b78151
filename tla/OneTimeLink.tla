---------------------------- MODULE OneTimeLink ----------------------------
(***************************************************************************)
(* What a magic link promises: it is minted once, spent at most once and   *)
(* within its term, and a link that was spent opens at most one session,   *)
(* for the address it was minted for. A failure may spend a link without   *)
(* opening anything; nothing brings a spent link back.                     *)
(***************************************************************************)
EXTENDS Naturals, Sequences

CONSTANTS Links, Owners, NoOwner

VARIABLES
  owner,    \* the address a link was minted for, or NoOwner
  spent,    \* links that were accepted
  late,     \* links that were accepted after their term
  opened    \* per link, the addresses of the sessions it opened

linkVars == <<owner, spent, late, opened>>

LinkInit ==
  /\ owner = [l \in Links |-> NoOwner]
  /\ spent = {} /\ late = {}
  /\ opened = [l \in Links |-> <<>>]

MintLink(l) ==
  /\ owner[l] = NoOwner
  /\ \E o \in Owners : owner' = [owner EXCEPT ![l] = o]
  /\ UNCHANGED <<spent, late, opened>>

SpendLink(l) ==
  /\ owner[l] # NoOwner /\ l \notin spent
  /\ spent' = spent \cup {l}
  /\ UNCHANGED <<owner, late, opened>>

OpenSession(l) ==
  /\ l \in spent /\ opened[l] = <<>>
  /\ opened' = [opened EXCEPT ![l] = <<owner[l]>>]
  /\ UNCHANGED <<owner, spent, late>>

LinkNext == \E l \in Links : MintLink(l) \/ SpendLink(l) \/ OpenSession(l)

LinkSpec == LinkInit /\ [][LinkNext]_linkVars
=============================================================================
