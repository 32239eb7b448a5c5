----------------------------- MODULE UserPolicy -----------------------------
(***************************************************************************)
(* What a token may own and write: the ownership constraints of a token    *)
(* policy (internal/remnawave/user.go) and the body checks a restricted    *)
(* user write passes before it is forwarded (internal/server/server.go).   *)
(*                                                                         *)
(* Every attribute of a user the policy reads is a set of values: the      *)
(* squads are sets anyway, and a scalar (username, email, Telegram id,     *)
(* subscription page) is {} when missing and a singleton otherwise.  A     *)
(* constraint is the set of accepted values, {} when it is not configured: *)
(* prefix, suffix, substring, regex and domain tests only matter through   *)
(* the set of values they accept, which never holds the missing value.     *)
(***************************************************************************)

CONSTANTS Users,   \* user uuids
          Values   \* every username, email, Telegram id, squad and page uuid

UserFields == {"username", "email", "telegramId",
               "internalSquads", "externalSquads", "subscriptionPage"}

UserRecord == [UserFields -> SUBSET Values]

Constraints == [UserFields -> SUBSET Values]

\* A JSON body names some fields and gives them values; {} is the JSON null or
\* the empty list.
Bodies == [names : SUBSET UserFields, values : UserRecord]

\* The user does not exist upstream.
Absent == [f \in {} |-> {}]

-----------------------------------------------------------------------------
\* ValidateUsername, ValidateEmail, ValidateTelegramID and the squad and page
\* blocks of OwnsUser have one shape: a configured constraint refuses the
\* missing value and any value outside its set.
OwnsField(c, u, f) ==
    c[f] # {} => u[f] # {} /\ u[f] \subseteq c[f]

OwnsUser(c, u) == \A f \in UserFields : OwnsField(c, u, f)

\* validateUserConstraints looks only at the fields the body names, and lets a
\* null clear every constrained field but the username.
ValidField(c, f, v) ==
    c[f] # {} => IF v = {} THEN f # "username" ELSE v \subseteq c[f]

validateUserConstraints(c, body) ==
    \A f \in body.names : ValidField(c, f, body.values[f])

hasUserOwnershipConstraint(c) == \E f \in UserFields : c[f] # {}

-----------------------------------------------------------------------------
\* The panel behind the proxy merges an update into the stored user, and
\* creates a user with the missing value in the fields the body leaves out.
ApplyBody(u, body) ==
    [f \in UserFields |-> IF f \in body.names THEN body.values[f] ELSE u[f]]

CreateFrom(body) ==
    [f \in UserFields |-> IF f \in body.names THEN body.values[f] ELSE {}]

=============================================================================
