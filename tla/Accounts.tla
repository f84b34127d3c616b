------------------------------- MODULE Accounts -------------------------------
(* Accounts: registration, recovery of a password, profile and deletion.     *)
(*                                                                           *)
(* src/api/routers/auth.py and src/api/routers/users.py.  Supabase keeps the *)
(* users, with the time of their last change, which a version stands for; a  *)
(* recovery token of the backend carries what the backend makes of that time *)
(* when its link was opened, and is good while it makes the same of the time *)
(* of now.  Nothing else says that a token was used.                         *)
EXTENDS Processes

CONSTANTS
  People,      \* users there can be
  Formats,     \* image formats of avatars
  MaxVersion,  \* bound: changes of a user
  TimesAreText \* whether the client of Supabase hands out times as text; the
               \* pinned one, 2.10.0, hands out datetimes (requirements.txt)

VARIABLES
  accounts,  \* users of Supabase with their profiles
  links,     \* users with a recovery link that was not opened
  tokens,    \* recovery tokens that have not expired
  resets,    \* handlers between reading the user and changing its password
  joiners,   \* handlers between the registration and the profile
  avatars    \* bucket avatars, by user and format

accountVars == <<accounts, links, tokens, resets, joiners, avatars>>

\* changed is the version that the last change of the password made; the id of
\* a user who is deleted is nobody else's.
Account == [version : 0..MaxVersion, changed : 0..MaxVersion, town : BOOLEAN,
            avatar : Formats \union {None}, deleted : BOOLEAN]

\* The time of the last change is kept when it is text, and is nothing otherwise.
AuthUserUpdatedAt(version) == IF TimesAreText THEN version ELSE None

\* issued, the version when the token was made, is for the properties alone.
Token == [user : People, updatedAt : (0..MaxVersion) \union {None}, issued : 0..MaxVersion]
Running == Cardinality({h \in Handlers : resets[h] # None \/ joiners[h] # None})
Exists(u) == accounts[u] # None /\ ~accounts[u].deleted
CanChange(u) == Exists(u) /\ accounts[u].version < MaxVersion
Touched(a) == [a EXCEPT !.version = @ + 1]
WithNewPassword(a) == [a EXCEPT !.version = @ + 1, !.changed = a.version + 1]

AccountsInit ==
  /\ accounts = [u \in People |-> None]
  /\ links = {}
  /\ tokens = {}
  /\ resets = [h \in Handlers |-> None]
  /\ joiners = [h \in Handlers |-> None]
  /\ avatars = {}

(* ------------------------------ registration ----------------------------- *)

\* A trigger makes the profile of a new user; the town is written next.
SignUp(h, u) ==
  /\ Running < Servers /\ resets[h] = None /\ joiners[h] = None /\ accounts[u] = None
  /\ accounts' = [accounts EXCEPT ![u] =
       [version |-> 0, changed |-> 0, town |-> FALSE, avatar |-> None, deleted |-> FALSE]]
  /\ joiners' = [joiners EXCEPT ![h] = u]
  /\ UNCHANGED <<links, tokens, resets, avatars>>

PersistSignupMunicipality(h) ==
  LET u == joiners[h] IN
  /\ u # None
  /\ accounts' = IF Exists(u) THEN [accounts EXCEPT ![u].town = TRUE] ELSE accounts
  /\ joiners' = [joiners EXCEPT ![h] = None]
  /\ UNCHANGED <<links, tokens, resets, avatars>>

UpdateProfile(u) ==
  /\ Exists(u) /\ Running < Servers
  /\ accounts' = [accounts EXCEPT ![u].town = TRUE]
  /\ UNCHANGED <<links, tokens, resets, joiners, avatars>>

(* -------------------------------- passwords ------------------------------ *)

ForgotPassword(u) ==
  /\ Exists(u) /\ Running < Servers
  /\ links' = links \union {u}
  /\ UNCHANGED <<accounts, tokens, resets, joiners, avatars>>

\* Opening a link signs the user in; the token has the time of afterwards.
AuthCallback(u) ==
  /\ u \in links /\ CanChange(u) /\ Running < Servers
  /\ links' = links \ {u}
  /\ accounts' = [accounts EXCEPT ![u] = Touched(@)]
  /\ LET now == accounts'[u].version IN
     tokens' = tokens \union
       {[user |-> u, updatedAt |-> AuthUserUpdatedAt(now), issued |-> now]}
  /\ UNCHANGED <<resets, joiners, avatars>>

StartReset(h, t) ==
  /\ Running < Servers /\ resets[h] = None /\ joiners[h] = None
  /\ t \in tokens /\ CanChange(t.user)
  /\ AuthUserUpdatedAt(accounts[t.user].version) = t.updatedAt
  /\ resets' = [resets EXCEPT ![h] = t]
  /\ UNCHANGED <<accounts, links, tokens, joiners, avatars>>

ResetPassword(h) ==
  LET t == resets[h] IN
  /\ t # None
  /\ accounts' = IF CanChange(t.user)
                 THEN [accounts EXCEPT ![t.user] = WithNewPassword(@)] ELSE accounts
  /\ resets' = [resets EXCEPT ![h] = None]
  /\ UNCHANGED <<links, tokens, joiners, avatars>>

\* A signed-in user proves the present password and states the next one.
UpdatePassword(u) ==
  /\ CanChange(u) /\ Running < Servers
  /\ accounts' = [accounts EXCEPT ![u] = WithNewPassword(@)]
  /\ UNCHANGED <<links, tokens, resets, joiners, avatars>>

ExpireToken(t) ==
  /\ t \in tokens
  /\ tokens' = tokens \ {t}
  /\ UNCHANGED <<accounts, links, resets, joiners, avatars>>

\* The process of a handler stops, or its request fails.
StopHandler(h) ==
  /\ resets[h] # None \/ joiners[h] # None
  /\ resets' = [resets EXCEPT ![h] = None]
  /\ joiners' = [joiners EXCEPT ![h] = None]
  /\ UNCHANGED <<accounts, links, tokens, avatars>>

(* --------------------------- avatars and deletion ------------------------ *)

\* The image is stored first; the second request, for the profile, may fail.
UploadAvatar(u, f) ==
  /\ Exists(u) /\ Running < Servers
  /\ avatars' = avatars \union {<<u, f>>}
  /\ \/ accounts' = [accounts EXCEPT ![u].avatar = f]
     \/ UNCHANGED accounts
  /\ UNCHANGED <<links, tokens, resets, joiners>>

\* The rows of a user go with it; what is in the bucket stays.
DeleteAccount(u) ==
  /\ Exists(u) /\ Running < Servers
  /\ accounts' = [accounts EXCEPT ![u].deleted = TRUE]
  /\ links' = links \ {u}
  /\ UNCHANGED <<tokens, resets, joiners, avatars>>

AccountsNext ==
  \/ \E h \in Handlers, u \in People : SignUp(h, u)
  \/ \E h \in Handlers : PersistSignupMunicipality(h) \/ ResetPassword(h) \/ StopHandler(h)
  \/ \E u \in People : \/ UpdateProfile(u) \/ ForgotPassword(u) \/ AuthCallback(u)
                      \/ UpdatePassword(u) \/ DeleteAccount(u)
  \/ \E h \in Handlers, t \in tokens : StartReset(h, t)
  \/ \E t \in tokens : ExpireToken(t)
  \/ \E u \in People, f \in Formats : UploadAvatar(u, f)

AccountsSpec == AccountsInit /\ [][AccountsNext]_accountVars

(* ------------------------------- properties ------------------------------ *)

\* Users, links, tokens, handlers and avatars hold what their names say.
AccountsTypeOK ==
  /\ accounts \in [People -> Account \union {None}]
  /\ links \subseteq People
  /\ tokens \subseteq Token
  /\ resets \in [Handlers -> Token \union {None}]
  /\ joiners \in [Handlers -> People \union {None}]
  /\ avatars \subseteq People \X Formats

\* A replayed token is rejected: a token that is about to change a password is
\* younger than the password, so that it works once, and not after the password
\* was changed otherwise (test_reset_password_rejects_replayed_backend_recovery-
\* _token).  Refuted: without text on either side nothing is compared.
RecoveryIsFresh ==
  \A h \in Handlers : resets[h] # None /\ Exists(resets[h].user)
    => accounts[resets[h].user].changed <= resets[h].issued

\* The deletion of an account takes all its data (refuted: avatars stay).
DeletedLeavesNothing == \A a \in avatars : Exists(a[1])
=============================================================================
