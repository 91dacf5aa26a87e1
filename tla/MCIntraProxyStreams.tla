------------------------ MODULE MCIntraProxyStreams ------------------------
(* Instances of IntraProxyStreams for TLC.                                 *)
EXTENDS IntraProxyStreams, TLC

(* The sending node owns the shards and knows of the other's, the          *)
(* receiving node may have yet to; MaxChanges takes it from there.         *)
KnownInit == Init /\ localSources = Sources /\ knownTargets = Targets
KnownSpec == KnownInit /\ [][Next]_vars /\ Fairness
=============================================================================
