----------------------------- MODULE PublicLink -----------------------------
(***************************************************************************)
(* The public link of a node: the dialog that edits it (action.share,      *)
(* LinkModel and CompositeModel, and the panels that drive them) and the   *)
(* REST handlers that store it (idm/share).                                *)
(*                                                                         *)
(* A link is kept in three stores that no transaction joins: a workspace,  *)
(* a hidden user that opens it, with a password when the link has one, and *)
(* a hash document that says which user opens it and whether its password  *)
(* is asked for.  Handlers of several requests interleave at each call.    *)
(*                                                                         *)
(* Left out: cells, custom hashes, ACLs and the options of a link.         *)
(***************************************************************************)
EXTENDS Naturals, Sequences, FiniteSets

CONSTANTS
  Passwords,   \* strong passwords a user may choose
  Mandates,    \* values of the authorization password_mandatory
  MaxRequests, \* bound on the requests of the dialog
  MaxFailures  \* bound on the calls to a store that fail

ASSUME PublicLinkAssumption ==
  /\ Mandates \subseteq BOOLEAN /\ MaxFailures \in Nat /\ MaxRequests \in Nat \ {0}
  /\ Passwords \cap {"none", "default"} = {}

\* A link and its user are named after the request that creates them; those
\* that exist when the dialog opens, after Existing.  No uuid, no login: 0.
Existing == MaxRequests + 1
Id == 1..Existing

VARIABLES
  mandatory,  \* password_mandatory
  link,       \* LinkModel.link
  original,   \* LinkModel.originalLink, or NoLink
  dirty,      \* LinkModel.dirty
  passwords,  \* LinkModel.createPassword and updatePassword, or "none"
  saving,     \* CompositeModel.saving
  toggling,   \* saving, in the state of PublicLinkPanel
  reqs,       \* the requests sent, each with how far it got
  workspaces, \* uuids of the workspaces
  users,      \* password of each hidden user, "none" when there is no such user
  docs,       \* hash document of each link, or NoDoc
  failures,   \* calls that failed
  overlapped  \* whether a request was sent before another was answered

client == <<link, original, dirty, passwords, saving, toggling>>
stores == <<workspaces, users, docs>>
vars == <<mandatory, client, reqs, stores, failures, overlapped>>

NoPasswords == [create |-> "none", update |-> "none"]
NoDoc == [login |-> 0, protected |-> FALSE]
Link(u, l, r, n) == [uuid |-> u, login |-> l, required |-> r, named |-> n]
NoLink == Link(0, 0, FALSE, FALSE)

\* CompositeModel.emptyLink, with a label and the node.
emptyLink == Link(0, 0, FALSE, TRUE)

Request(kind, by, l) ==
  [kind |-> kind, by |-> by, at |-> "workspace", link |-> l, enabled |-> FALSE,
   create |-> "none", update |-> "none", user |-> 0, stored |-> NoDoc, ok |-> FALSE]

\* A node without a link, or with one: CompositeModel.load asks for it.
Init ==
  /\ mandatory \in Mandates
  /\ original = NoLink /\ dirty = FALSE /\ passwords = NoPasswords
  /\ saving = FALSE /\ toggling = FALSE /\ failures = 0 /\ overlapped = FALSE
  /\ \/ /\ link = emptyLink /\ reqs = <<>> /\ workspaces = {}
        /\ users = [u \in Id |-> "none"] /\ docs = [l \in Id |-> NoDoc]
     \/ /\ link = NoLink /\ workspaces = {Existing}
        /\ reqs = <<Request("get", "other", Link(Existing, 0, FALSE, FALSE))>>
        /\ \E p \in Passwords \cup {"default"} :
             /\ users = [u \in Id |-> IF u = Existing THEN p ELSE "none"]
             /\ docs = [l \in Id |-> IF l = Existing
                                     THEN [login |-> Existing, protected |-> p # "default"]
                                     ELSE NoDoc]

Active == {i \in DOMAIN reqs : reqs[i].at # "over"}

----------------------------------------------------------------------------
(***************************************************************************)
(* The dialog.                                                             *)
(***************************************************************************)

Sends(r) ==
  /\ Len(reqs) < MaxRequests /\ reqs' = Append(reqs, r)
  /\ overlapped' = (overlapped \/ Active # {})

\* LinkModel.save: PasswordEnabled, and where the password goes.
Enabled(l, p) == p.create # "none" \/ p.update # "none" \/ l.required
Throws(l, p) == mandatory /\ ~Enabled(l, p)
Put(by, l, p) ==
  [Request("put", by, l) EXCEPT
     !.enabled = Enabled(l, p),
     !.create = IF p.create = "none" /\ ~l.required THEN p.update ELSE p.create,
     !.update = IF p.create = "none" /\ l.required THEN p.update ELSE "none"]

\* CompositeModel.save, while something is dirty.  What LinkModel.save throws
\* leaves saving set.
Save ==
  /\ dirty /\ saving' = TRUE
  /\ \/ ~Throws(link, passwords) /\ Sends(Put("save", link, passwords))
     \/ Throws(link, passwords) /\ UNCHANGED <<reqs, overlapped>>
  /\ UNCHANGED <<mandatory, link, original, dirty, passwords, toggling, stores, failures>>

\* Mutant: the toggle is not disabled while a request is under way.
ToggleTwice ==
  /\ toggling' = TRUE
  /\ \/ link.uuid # 0 /\ Sends(Request("delete", "toggle", link))
     \/ link.uuid = 0 /\ ~mandatory /\ Sends(Put("toggle", link, passwords))
  /\ UNCHANGED <<mandatory, link, original, dirty, passwords, saving, stores, failures>>

\* toggleLink, enabled until it is answered: the link is deleted or created.
Toggle ==
  /\ ~toggling /\ toggling' = TRUE
  /\ \/ link.uuid # 0 /\ Sends(Request("delete", "toggle", link))
     \/ link.uuid = 0 /\ ~mandatory /\ Sends(Put("toggle", link, passwords))
  /\ UNCHANGED <<mandatory, link, original, dirty, passwords, saving, stores, failures>>

\* enableLinkWithPassword, with setCreatePassword.
EnableWithPassword(p) ==
  /\ mandatory /\ link.uuid = 0 /\ ~toggling
  /\ link' = [link EXCEPT !.required = TRUE] /\ dirty' = TRUE
  /\ passwords' = [passwords EXCEPT !.create = p]
  /\ Sends(Put("other", link', passwords'))
  /\ UNCHANGED <<mandatory, original, saving, toggling, stores, failures>>

\* updateLink, by the fields of the options.
UpdateLink ==
  /\ link.uuid # 0 /\ dirty' = TRUE
  /\ UNCHANGED <<mandatory, link, original, passwords, saving, toggling, reqs, stores, failures,
                 overlapped>>

\* setUpdatePassword; the fields only let strong passwords through.
SetUpdatePassword(p) ==
  /\ link.uuid # 0 /\ dirty' = TRUE /\ passwords' = [passwords EXCEPT !.update = p]
  /\ UNCHANGED <<mandatory, link, original, saving, toggling, reqs, stores, failures, overlapped>>

\* resetPassword
ResetPassword ==
  /\ link.uuid # 0 /\ link.required /\ ~mandatory
  /\ link' = [link EXCEPT !.required = FALSE] /\ dirty' = TRUE
  /\ passwords' = [passwords EXCEPT !.update = "none"]
  /\ UNCHANGED <<mandatory, original, saving, toggling, reqs, stores, failures, overlapped>>

\* revertChanges
RevertChanges ==
  /\ dirty /\ original # NoLink
  /\ link' = original /\ dirty' = FALSE /\ passwords' = NoPasswords
  /\ UNCHANGED <<mandatory, original, saving, toggling, reqs, stores, failures, overlapped>>

Over == [Request("over", "over", NoLink) EXCEPT !.at = "over"]

\* Mutant: an error leaves the dialog in its saving state.
AnswerOnlyOk(i) ==
  LET r == reqs[i] IN
  /\ r.at = "answer" /\ reqs' = [reqs EXCEPT ![i] = Over]
  /\ saving' = (saving /\ (r.by # "save" \/ ~r.ok))
  /\ toggling' = (toggling /\ (r.by # "toggle" \/ ~r.ok))
  /\ \/ ~r.ok /\ UNCHANGED <<link, original, dirty, passwords>>
     \/ /\ r.ok /\ r.kind \in {"put", "get"} /\ link' = r.link /\ original' = r.link
        /\ dirty' = (dirty /\ r.kind = "get")
        /\ passwords' = IF r.kind = "get" THEN passwords ELSE NoPasswords
     \/ /\ r.ok /\ r.kind = "delete" /\ link' = emptyLink /\ dirty' = FALSE
        /\ passwords' = NoPasswords /\ UNCHANGED original
  /\ UNCHANGED <<mandatory, stores, failures, overlapped>>

\* The answer: errors are only shown.
Answer(i) ==
  LET r == reqs[i] IN
  /\ r.at = "answer" /\ reqs' = [reqs EXCEPT ![i] = Over]
  /\ saving' = (saving /\ r.by # "save") /\ toggling' = (toggling /\ r.by # "toggle")
  /\ \/ ~r.ok /\ UNCHANGED <<link, original, dirty, passwords>>
     \/ /\ r.ok /\ r.kind \in {"put", "get"} /\ link' = r.link /\ original' = r.link
        /\ dirty' = (dirty /\ r.kind = "get")
        /\ passwords' = IF r.kind = "get" THEN passwords ELSE NoPasswords
     \/ /\ r.ok /\ r.kind = "delete" /\ link' = emptyLink /\ dirty' = FALSE
        /\ passwords' = NoPasswords /\ UNCHANGED original
  /\ UNCHANGED <<mandatory, stores, failures, overlapped>>

----------------------------------------------------------------------------
(***************************************************************************)
(* The handlers, one action per call to a store.                           *)
(***************************************************************************)

At(i, kinds, at) == reqs[i].at = at /\ reqs[i].kind \in kinds
Goes(i, r, at) == reqs' = [reqs EXCEPT ![i] = [r EXCEPT !.at = at]]
Fails(i) == Goes(i, reqs[i], "answer")
Internal == UNCHANGED <<mandatory, client, failures, overlapped>>

\* GetOrCreateWorkspace; without a uuid a label is asked for.
GetOrCreateWorkspace(i) ==
  LET r == reqs[i]
      next == [put |-> "user", delete |-> "remove", get |-> "reload"]
  IN /\ At(i, {"put", "delete", "get"}, "workspace")
     /\ \/ /\ r.link.uuid # 0 /\ r.link.uuid \in workspaces
           /\ Goes(i, r, next[r.kind]) /\ UNCHANGED workspaces
        \/ /\ r.link.uuid = 0 /\ r.link.named /\ workspaces' = workspaces \cup {i}
           /\ Goes(i, [r EXCEPT !.link.uuid = i], "user")
        \/ /\ IF r.link.uuid = 0 THEN ~r.link.named ELSE r.link.uuid \notin workspaces
           /\ Fails(i) /\ UNCHANGED workspaces
     /\ UNCHANGED <<users, docs>> /\ Internal

\* The user of request i, with the password of the request or without.
CreateHiddenUser(i, r, password) ==
  \/ r.enabled /\ password = "none" /\ Fails(i) /\ UNCHANGED users
  \/ /\ ~r.enabled \/ password # "none"
     /\ users' = [users EXCEPT ![i] = IF r.enabled THEN password ELSE "default"]
     /\ Goes(i, [r EXCEPT !.link.login = i, !.link.required = r.enabled, !.user = i], "acls")

\* GetOrCreateHiddenUser of the link as the client knows it.
GetOrCreateHiddenUser(i) ==
  LET r == reqs[i] IN
  /\ At(i, {"put"}, "user")
  /\ \/ r.link.login = 0 /\ CreateHiddenUser(i, r, r.create)
     \/ /\ r.link.login # 0 /\ UNCHANGED users
        /\ Goes(i, [r EXCEPT !.user = IF users[r.link.login] = "none" THEN 0
                                                      ELSE r.link.login], "load")
  /\ UNCHANGED <<workspaces, docs>> /\ Internal

\* An update compares the password conditions with the document.
Changes(r, stored) ==
  \/ r.enabled # stored.protected
  \/ r.enabled /\ stored.protected /\ r.update # "none"

Loaded(i, stored) ==
  LET r == [reqs[i] EXCEPT !.stored = stored] IN
  IF Changes(r, stored) THEN Goes(i, r, "drop")
  ELSE Goes(i, [r EXCEPT !.link.required = stored.protected], "acls")

LoadHashDocument(i) ==
  LET r == reqs[i] IN
  /\ \/ At(i, {"put"}, "load") /\ Loaded(i, docs[r.link.uuid])
     \/ /\ At(i, {"delete"}, "load")
        /\ IF docs[r.link.uuid] = NoDoc THEN Fails(i)
           ELSE Goes(i, [r EXCEPT !.stored = docs[r.link.uuid]], "unlink")
  /\ UNCHANGED stores /\ Internal

\* Mutant: the former user is left when the password changes.
DroppedNever(stored) == users

\* DeleteHiddenUser, of the user in the document.
Dropped(stored) == [u \in Id |-> IF u = stored.login THEN "none" ELSE users[u]]
DeleteHiddenUser(i) ==
  LET r == reqs[i] IN
  /\ users' = Dropped(r.stored)
  /\ \/ At(i, {"put"}, "drop") /\ Goes(i, r, "renew")
     \/ At(i, {"delete"}, "drop") /\ Goes(i, [r EXCEPT !.ok = TRUE], "answer")
  /\ UNCHANGED <<workspaces, docs>> /\ Internal

\* A password that is updated, not created, counts when one is stored.
RenewHiddenUser(i) ==
  LET r == reqs[i] IN
  /\ At(i, {"put"}, "renew")
  /\ CreateHiddenUser(i, r, IF r.stored.protected THEN r.update ELSE r.create)
  /\ UNCHANGED <<workspaces, docs>> /\ Internal

\* Mutant: the user is not looked at.
UpdateACLsOfNobody(i) ==
  /\ At(i, {"put"}, "acls") /\ Goes(i, reqs[i], "store")
  /\ UNCHANGED stores /\ Internal

\* UpdateACLsForHiddenUser, of a user that was found: otherwise it panics.
UpdateACLs(i) ==
  /\ At(i, {"put"}, "acls")
  /\ IF reqs[i].user = 0 THEN Fails(i) ELSE Goes(i, reqs[i], "store")
  /\ UNCHANGED stores /\ Internal

StoreHashDocument(i) ==
  LET l == reqs[i].link IN
  /\ At(i, {"put"}, "store")
  /\ docs' = [docs EXCEPT ![l.uuid] = [login |-> l.login, protected |-> l.required]]
  /\ Goes(i, reqs[i], "reload")
  /\ UNCHANGED <<workspaces, users>> /\ Internal

\* WorkspaceToShareLinkObject
Reload(i) ==
  LET r == reqs[i]
      doc == docs[r.link.uuid]
  IN /\ At(i, {"put", "get"}, "reload")
     /\ IF doc = NoDoc THEN Fails(i)
        ELSE Goes(i, [r EXCEPT !.ok = TRUE,
                               !.link = Link(r.link.uuid, doc.login, doc.protected, TRUE)], "answer")
     /\ UNCHANGED stores /\ Internal

\* DeleteWorkspace looks it up again.
DeleteWorkspace(i) ==
  LET l == reqs[i].link IN
  /\ At(i, {"delete"}, "remove") /\ workspaces' = workspaces \ {l.uuid}
  /\ IF l.uuid \in workspaces THEN Goes(i, reqs[i], "load") ELSE Fails(i)
  /\ UNCHANGED <<users, docs>> /\ Internal

DeleteHashDocument(i) ==
  LET l == reqs[i].link IN
  /\ At(i, {"delete"}, "unlink") /\ docs' = [docs EXCEPT ![l.uuid] = NoDoc]
  /\ IF docs[l.uuid] = NoDoc THEN Fails(i) ELSE Goes(i, reqs[i], "drop")
  /\ UNCHANGED <<workspaces, users>> /\ Internal

\* A call fails; the one that loads the document in an update may fail unseen.
CallFails(i) ==
  /\ reqs[i].at \notin {"answer", "over"}
  /\ failures < MaxFailures /\ failures' = failures + 1
  /\ IF At(i, {"put"}, "load") THEN Loaded(i, NoDoc) ELSE Fails(i)
  /\ UNCHANGED <<mandatory, client, stores, overlapped>>

----------------------------------------------------------------------------

Handler(i) ==
  \/ GetOrCreateWorkspace(i) \/ GetOrCreateHiddenUser(i) \/ LoadHashDocument(i)
  \/ DeleteHiddenUser(i) \/ RenewHiddenUser(i) \/ UpdateACLs(i) \/ StoreHashDocument(i)
  \/ Reload(i) \/ DeleteWorkspace(i) \/ DeleteHashDocument(i)

Dialog ==
  \/ Save \/ Toggle \/ UpdateLink \/ ResetPassword \/ RevertChanges
  \/ \E p \in Passwords : EnableWithPassword(p) \/ SetUpdatePassword(p)

Requests == \E i \in DOMAIN reqs : Handler(i) \/ Answer(i)

Next == Dialog \/ Requests \/ \E i \in DOMAIN reqs : CallFails(i)

\* Requests are handled and answered; the user owes nothing.
Spec == Init /\ [][Next]_vars /\ WF_vars(Requests)

----------------------------------------------------------------------------
(***************************************************************************)
(* Properties.                                                             *)
(***************************************************************************)

Links == [uuid : 0..Existing, login : 0..Existing, required : BOOLEAN, named : BOOLEAN]

\* The type invariant.
TypeOK ==
  /\ mandatory \in BOOLEAN /\ {link, original} \subseteq Links
  /\ {dirty, saving, toggling, overlapped} \subseteq BOOLEAN
  /\ passwords \in [create : Passwords \cup {"none"}, update : Passwords \cup {"none"}]
  /\ \A i \in Active : /\ reqs[i].link \in Links /\ reqs[i].user \in 0..Existing
                        /\ reqs[i].at = "store" => {reqs[i].user, reqs[i].link.login} \subseteq Id
  /\ Len(reqs) <= MaxRequests /\ workspaces \subseteq Id
  /\ users \in [Id -> Passwords \cup {"none", "default"}]
  /\ docs \in [Id -> [login : 0..Existing, protected : BOOLEAN]]
  /\ failures \in 0..MaxFailures

Undisturbed == ~overlapped /\ failures = 0

\* When every request was answered, one at a time and without a failure, the
\* stores agree with each other and with the dialog, whatever was edited, reset
\* and reverted meanwhile: there is a workspace, a document and a user for the
\* link the dialog shows and for no other, and the user has a password when
\* the document says that it is asked for.
StoresAgree ==
  Undisturbed /\ Active = {} =>
    LET doc == docs[link.uuid] IN
    /\ workspaces = {link.uuid} \ {0}
    /\ \A l \in Id : docs[l] # NoDoc <=> l \in workspaces
    /\ \A u \in Id : users[u] # "none" => link.uuid # 0 /\ doc.login = u
    /\ link.uuid # 0 => /\ link.login = doc.login /\ users[doc.login] # "none"
                        /\ doc.protected <=> users[doc.login] # "default"
                        /\ ~dirty => link.required = doc.protected

\* A dialog never leaves two links on its node, though its requests overlap.
OneLink == ~mandatory /\ failures = 0 => Cardinality(workspaces) <= 1

\* The dialog gets out of its saving states, also when requests fail.
SavingEnds == (saving ~> ~saving \/ mandatory) /\ (toggling ~> ~toggling)

\* A password to create is sent when the link has none.
CreatesWhenNone ==
  Undisturbed => \A i \in Active :
    reqs[i].kind = "put" /\ reqs[i].at = "load" /\ reqs[i].create # "none"
      => ~docs[reqs[i].link.uuid].protected

\* A document says that a password is asked for when its user has one.
ProtectedByPassword ==
  \A l \in workspaces : LET doc == docs[l] IN
    doc # NoDoc /\ users[doc.login] # "none" => (doc.protected <=> users[doc.login] # "default")

\* A link has the user that opens it.
UserExists == Active = {} => \A l \in workspaces : docs[l] # NoDoc => users[docs[l].login] # "none"

\* The password that was sent, alone and without a failure, is the link's.
PasswordIsSaved ==
  Undisturbed => \A i \in Active : LET r == reqs[i] IN
    r.kind = "put" /\ r.at = "answer" /\ r.ok =>
      \A p \in {r.create, r.update} : p # "none" => users[r.link.login] = p

\* A deleted link is gone.
DeletedIsGone == Active = {} /\ failures = 0 => \A l \in Id \ workspaces : docs[l] = NoDoc

\* What the dialog shows as saved is what is stored.
CleanIsStored ==
  Active = {} /\ failures = 0 /\ ~dirty /\ link.uuid # 0 =>
    link.uuid \in workspaces /\ docs[link.uuid].protected = link.required
=============================================================================
