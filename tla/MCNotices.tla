----------------------------- MODULE MCNotices ------------------------------
EXTENDS Notices, TLC
TransitionsDef == {[status |-> "CANCELLED", type |-> "PICKUP", by |-> "customer"],
                   [status |-> "IN_DELIVERY", type |-> "DELIVERY", by |-> "none"],
                   [status |-> "CREATED", type |-> "PICKUP", by |-> "none"]}
=============================================================================
