----------------------------- MODULE MCJanitor -----------------------------
(***************************************************************************)
(* Small instances of Janitor: values for its constants, and the symmetry  *)
(* of issue ids and of handler invocations, which are only compared.       *)
(***************************************************************************)
EXTENDS Janitor, FiniteSets, TLC

CONSTANTS s1, s2, k1, k2

OneServer == [k \in Keys |-> s1]
TwoServers == (k1 :> s1) @@ (k2 :> s2)

NoNotifier == <<>>
DiscordOnly == <<"discord">>
TelegramOnly == <<"telegram">>
BothNotifiers == <<"discord", "telegram">>

Symmetry == Permutations(Ids) \cup Permutations(Handlers)

=============================================================================
