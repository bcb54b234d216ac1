------------------------------ MODULE MCAliases ------------------------------
(* The aliases of a mailbox, for TLC: two clicks, two threads that switch an *)
(* alias's state, an operator and a mailbox whose settings and session come  *)
(* and go. The bounds leave out states in which more than two of them are    *)
(* under way over two aliases.                                               *)
EXTENDS Aliases

AtMostOneAlias == Cardinality({a \in AliasIds : hme'[a] # "none"}) <= 1
NothingUnderWay == lockOp' = "free" /\ \A c \in Clickers : click'[c] = Idle
MailboxIsCalm == secret' = 1 /\ aliasFaults' = 0

\* Bounds: two threads switch an alias only while there is one and nothing else
\* is under way; settings change, or a fault happens, only while there is one;
\* a switch that was crossed is over before the mailbox is worked with again;
\* a second click comes only while nothing is switched.
TwoAtATime ==
  /\ toggle'["u"].at # "idle" => AtMostOneAlias /\ NothingUnderWay /\ secret' = 1
  /\ AtMostOneAlias \/ MailboxIsCalm
  /\ secret' = 1 \/ aliasFaults' = 0
  /\ crossed' # {} => NothingUnderWay
  /\ click'["c2"] # Idle =>
       MailboxIsCalm /\ apart' = {} /\ \A t \in Togglers : toggle'[t].at = "idle"

AliasesSpec == AliasInit /\ [][AliasNext /\ TwoAtATime]_aliasVars
=============================================================================
