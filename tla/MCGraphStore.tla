---------------------------- MODULE MCGraphStore ----------------------------
(* Small instances of GraphStore: the kernel and one more bundle, one  *)
(* other node, an ordinary kind and an input kind everyone may see.         *)
EXTENDS GraphStore

CONSTANTS kernel, app, n1, none

MCIds == {kernel, app, n1}
MCBundles == {kernel, app}
MCKinds == {1, 2}
MCKeys == {"OWNER", "ID", "SRC", "DST", "PREDICATE"}
MCValues == MCIds \cup {"REL"}
NoFields == [k \in {} |-> {}]
MCFieldMaps == {NoFields, [k \in {"OWNER"} |-> app]}
MCLabelSets == {{}, {1, 2}}
MCLinkRequests == {[pred |-> "REL", kind |-> none], [pred |-> "CAN_LINK", kind |-> "REL"]}
MCPatterns == {[labels |-> {}, props |-> NoFields],
               [labels |-> {}, props |-> [k \in {"SRC"} |-> app]]}
MCDeriveUuid(kind, fields) == n1

============================================================================
