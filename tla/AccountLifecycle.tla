--------------------------- MODULE AccountLifecycle ---------------------------
(* The account life cycle and the roles of the portal (domain/auth.py).      *)

Roles == {"viewer", "operator", "admin"}

UserStatus == {"pending", "active", "disabled", "rejected"}

\* Mutant: a rejected application can be approved after all.
TransitionsReopened ==
    [pending  |-> {"active", "rejected"},
     active   |-> {"disabled"},
     disabled |-> {"active"},
     rejected |-> {"active"}]

\* The transitions the services let an administrator make.
ALLOWED_TRANSITIONS ==
    [pending  |-> {"active", "rejected"},
     active   |-> {"disabled"},
     disabled |-> {"active"},
     rejected |-> {}]

\* An account as stored; "none" when nobody has applied for the name yet.
AccountRow == [status : UserStatus \cup {"none"}, role : Roles]

NoAccount == [status |-> "none", role |-> "viewer"]

Application == [status |-> "pending", role |-> "viewer"]

BootstrapAdmin == [status |-> "active", role |-> "admin"]

\* Only an active account signs in, and only admin holds user.manage.
ManagesUsers(account) == account.status = "active" /\ account.role = "admin"

\* The status each operation gives its account.
NewStatus == [approve |-> "active", reject |-> "rejected",
              disable |-> "disabled", enable |-> "active"]
=============================================================================
