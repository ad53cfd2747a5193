-------------------------- MODULE PublicLinkProofs --------------------------
(***************************************************************************)
(* Proofs about PublicLink, for any passwords and any number of requests:  *)
(* the types, one link on a node although requests of its dialog overlap,  *)
(* and three stores that agree when they do not.                           *)
(***************************************************************************)
EXTENDS PublicLink, SequenceTheorems, FiniteSetTheorems, TLAPS

Kinds == {"put", "get", "delete", "over"}
Senders == {"save", "toggle", "other", "over"}
Stages == {"workspace", "user", "load", "drop", "renew", "acls", "store", "reload", "remove",
           "unlink", "answer", "over"}
Secrets == Passwords \cup {"none"}
Docs == [login : 0..Existing, protected : BOOLEAN]

RequestRec ==
  [kind : Kinds, by : Senders, at : Stages, link : Links, enabled : BOOLEAN,
   create : Secrets, update : Secrets, user : 0..Existing, stored : Docs, ok : BOOLEAN]

\* What a request has found out by the time it reaches each call.
Staged(r) ==
  /\ r.at \notin {"workspace", "answer", "over"} => r.link.uuid # 0
  /\ r.kind = "put" /\ r.at \in {"load", "drop", "renew", "acls", "store"} => r.link.login # 0
  /\ r.at = "store" => r.user # 0 /\ r.link.login # 0

ClientTyped ==
  /\ mandatory \in BOOLEAN /\ link \in Links /\ original \in Links
  /\ dirty \in BOOLEAN /\ saving \in BOOLEAN /\ toggling \in BOOLEAN /\ overlapped \in BOOLEAN
  /\ passwords \in [create : Secrets, update : Secrets]

StoresTyped ==
  /\ workspaces \subseteq Id /\ users \in [Id -> Passwords \cup {"none", "default"}]
  /\ docs \in [Id -> Docs]

RequestsTyped ==
  /\ reqs \in Seq(RequestRec) /\ Len(reqs) <= MaxRequests
  /\ \A i \in DOMAIN reqs : Staged(reqs[i])

\* The inductive invariant that gives the types.
Typed == ClientTyped /\ StoresTyped /\ RequestsTyped /\ failures \in 0..MaxFailures

----------------------------------------------------------------------------
(***************************************************************************)
(* Requests.                                                               *)
(***************************************************************************)

\* The identifiers: 0 is none of them.
LEMMA Ids ==
  ASSUME PublicLinkAssumption
  PROVE  /\ MaxRequests \in Nat \ {0} /\ Existing \in Nat /\ Existing \in Id /\ 0 \notin Id
         /\ Id \subseteq 0..Existing /\ 0 \in 0..Existing
         /\ \A u \in 0..Existing : u # 0 => u \in Id
         /\ \A i \in 1..MaxRequests : i \in Id /\ i \in 0..Existing /\ i # Existing /\ i # 0
  BY DEF PublicLinkAssumption, Existing, Id

\* What the types say of each request.
LEMMA RequestFacts ==
  ASSUME PublicLinkAssumption, Typed
  PROVE  /\ DOMAIN reqs = 1..Len(reqs) /\ Len(reqs) \in Nat /\ Len(reqs) <= MaxRequests
         /\ \A i \in DOMAIN reqs : /\ reqs[i] \in RequestRec /\ Staged(reqs[i])
                                   /\ i \in 1..MaxRequests /\ i \in Id
<1>1. reqs \in Seq(RequestRec) /\ Len(reqs) <= MaxRequests
  BY DEF Typed, RequestsTyped
<1>2. DOMAIN reqs = 1..Len(reqs) /\ Len(reqs) \in Nat
  BY <1>1, LenProperties
<1>3. \A i \in DOMAIN reqs : reqs[i] \in RequestRec
  BY <1>1, <1>2, ElementOfSeq
<1>4. \A i \in DOMAIN reqs : i \in 1..MaxRequests /\ i \in Id
  BY <1>1, <1>2, Ids
<1> QED
  BY <1>1, <1>2, <1>3, <1>4 DEF Typed, RequestsTyped

\* The fields of a request, of a link and of a document.
LEMMA RecFacts ==
  /\ \A r \in RequestRec :
       /\ r.kind \in Kinds /\ r.by \in Senders /\ r.at \in Stages /\ r.link \in Links
       /\ r.enabled \in BOOLEAN /\ r.create \in Secrets /\ r.update \in Secrets
       /\ r.user \in 0..Existing /\ r.stored \in Docs /\ r.ok \in BOOLEAN
  /\ \A l \in Links : /\ l.uuid \in 0..Existing /\ l.login \in 0..Existing
                      /\ l.required \in BOOLEAN /\ l.named \in BOOLEAN
  /\ \A d \in Docs : d.login \in 0..Existing /\ d.protected \in BOOLEAN
BY DEF RequestRec, Links, Docs

\* A request that goes on with another stage keeps the rest.
LEMMA AtStage ==
  ASSUME NEW r \in RequestRec, NEW a \in Stages
  PROVE  LET q == [r EXCEPT !.at = a]
         IN /\ q \in RequestRec /\ q.at = a /\ q.kind = r.kind /\ q.by = r.by
            /\ q.link = r.link /\ q.enabled = r.enabled /\ q.create = r.create
            /\ q.update = r.update /\ q.user = r.user /\ q.stored = r.stored /\ q.ok = r.ok
BY DEF RequestRec

\* One request changes.
LEMMA RequestExcept ==
  ASSUME PublicLinkAssumption, Typed, NEW i \in DOMAIN reqs, NEW r \in RequestRec,
         reqs' = [reqs EXCEPT ![i] = r]
  PROVE  /\ reqs' \in Seq(RequestRec) /\ Len(reqs') = Len(reqs) /\ DOMAIN reqs' = DOMAIN reqs
         /\ reqs'[i] = r /\ \A j \in DOMAIN reqs : j # i => reqs'[j] = reqs[j]
<1> DEFINE f == [reqs EXCEPT ![i] = r]
<1>1. i \in 1..Len(reqs) /\ reqs \in Seq(RequestRec) /\ DOMAIN reqs = 1..Len(reqs)
  BY RequestFacts DEF Typed, RequestsTyped
<1>2. /\ f \in Seq(RequestRec) /\ Len(f) = Len(reqs)
      /\ \A j \in 1..Len(reqs) : f[j] = IF j = i THEN r ELSE reqs[j]
  BY <1>1, ExceptSeq
<1> HIDE DEF f
<1>3. DOMAIN f = 1..Len(f)
  BY <1>2, LenProperties
<1>4. reqs' = f
  BY DEF f
<1> QED
  BY <1>1, <1>2, <1>3, <1>4

\* A request goes on.
LEMMA GoesFacts ==
  ASSUME PublicLinkAssumption, Typed, NEW i \in DOMAIN reqs, NEW r \in RequestRec,
         NEW a \in Stages, Goes(i, r, a)
  PROVE  /\ reqs' \in Seq(RequestRec) /\ Len(reqs') = Len(reqs) /\ DOMAIN reqs' = DOMAIN reqs
         /\ \A j \in DOMAIN reqs : j # i => reqs'[j] = reqs[j]
         /\ reqs'[i].at = a /\ reqs'[i].kind = r.kind /\ reqs'[i].by = r.by
         /\ reqs'[i].link = r.link /\ reqs'[i].enabled = r.enabled
         /\ reqs'[i].create = r.create /\ reqs'[i].update = r.update
         /\ reqs'[i].user = r.user /\ reqs'[i].stored = r.stored /\ reqs'[i].ok = r.ok
         /\ reqs'[i] \in RequestRec
<1> DEFINE q == [r EXCEPT !.at = a]
<1>1. /\ q \in RequestRec /\ q.at = a /\ q.kind = r.kind /\ q.by = r.by
      /\ q.link = r.link /\ q.enabled = r.enabled /\ q.create = r.create
      /\ q.update = r.update /\ q.user = r.user /\ q.stored = r.stored /\ q.ok = r.ok
  BY AtStage
<1>2. reqs' = [reqs EXCEPT ![i] = q]
  BY DEF Goes
<1> HIDE DEF q
<1>3. /\ reqs' \in Seq(RequestRec) /\ Len(reqs') = Len(reqs) /\ DOMAIN reqs' = DOMAIN reqs
      /\ reqs'[i] = q /\ \A j \in DOMAIN reqs : j # i => reqs'[j] = reqs[j]
  BY <1>1, <1>2, RequestExcept
<1> QED
  BY <1>1, <1>3

\* A request changes, nobody else's does: its stage is all that is left to show.
LEMMA RequestTyped ==
  ASSUME PublicLinkAssumption, Typed, NEW i \in DOMAIN reqs,
         reqs' \in Seq(RequestRec), Len(reqs') = Len(reqs), DOMAIN reqs' = DOMAIN reqs,
         \A j \in DOMAIN reqs : j # i => reqs'[j] = reqs[j],
         Staged(reqs'[i])
  PROVE  RequestsTyped'
<1>1. \A j \in DOMAIN reqs : Staged(reqs'[j])
  BY DEF Typed, RequestsTyped
<1>2. Len(reqs') <= MaxRequests
  BY DEF Typed, RequestsTyped
<1> QED
  BY <1>1, <1>2 DEF RequestsTyped

\* The records of the dialog.
LEMMA DialogRecs ==
  ASSUME PublicLinkAssumption
  PROVE  /\ NoLink \in Links /\ emptyLink \in Links /\ NoDoc \in Docs
         /\ NoPasswords \in [create : Secrets, update : Secrets]
         /\ NoLink.uuid = 0 /\ emptyLink.uuid = 0 /\ NoDoc.login = 0
         /\ emptyLink.login = 0 /\ emptyLink.named /\ ~emptyLink.required /\ ~NoLink.named
         /\ NoPasswords.create = "none" /\ NoPasswords.update = "none"
BY Ids DEF NoLink, emptyLink, Link, Links, NoDoc, Docs, NoPasswords, Secrets

\* A link put together.
LEMMA LinkIs ==
  ASSUME NEW u \in 0..Existing, NEW l \in 0..Existing, NEW r \in BOOLEAN, NEW n \in BOOLEAN
  PROVE  /\ Link(u, l, r, n) \in Links /\ Link(u, l, r, n).uuid = u
         /\ Link(u, l, r, n).login = l /\ Link(u, l, r, n).required = r
         /\ Link(u, l, r, n).named = n
BY DEF Link, Links

\* A request as it is sent.
LEMMA RequestIs ==
  ASSUME PublicLinkAssumption, NEW k \in Kinds, NEW b \in Senders, NEW l \in Links,
         NEW q, q = Request(k, b, l)
  PROVE  /\ q \in RequestRec /\ q.at = "workspace" /\ q.kind = k /\ q.by = b /\ q.link = l
         /\ q.create = "none" /\ q.update = "none" /\ q.user = 0 /\ ~q.ok
<1>1. NoDoc \in Docs /\ "none" \in Secrets /\ "workspace" \in Stages /\ 0 \in 0..Existing
  BY DialogRecs, Ids DEF Secrets, Stages
<1> QED
  BY <1>1 DEF Request, RequestRec

\* The request of a link that is put.
LEMMA PutIs ==
  ASSUME PublicLinkAssumption, NEW b \in Senders, NEW l \in Links,
         NEW p \in [create : Secrets, update : Secrets]
  PROVE  LET q == Put(b, l, p)
         IN /\ q \in RequestRec /\ q.at = "workspace" /\ q.kind = "put" /\ q.by = b
            /\ q.link = l /\ q.enabled = Enabled(l, p)
            /\ q.create = IF p.create = "none" /\ ~l.required THEN p.update ELSE p.create
            /\ q.update = IF p.create = "none" /\ l.required THEN p.update ELSE "none"
            /\ q.user = 0 /\ ~q.ok
<1> DEFINE q0 == Request("put", b, l)
           e == Enabled(l, p)
           c == IF p.create = "none" /\ ~l.required THEN p.update ELSE p.create
           u == IF p.create = "none" /\ l.required THEN p.update ELSE "none"
<1>1. "put" \in Kinds
  BY DEF Kinds
<1>2. /\ q0 \in RequestRec /\ q0.at = "workspace" /\ q0.kind = "put" /\ q0.by = b /\ q0.link = l
      /\ q0.user = 0 /\ ~q0.ok
  <2> DEFINE k == "put"
  <2>1. k \in Kinds /\ q0 = Request(k, b, l)
    BY <1>1
  <2> HIDE DEF k, q0
  <2>2. /\ q0 \in RequestRec /\ q0.at = "workspace" /\ q0.kind = k /\ q0.by = b /\ q0.link = l
        /\ q0.user = 0 /\ ~q0.ok
    BY <2>1, RequestIs
  <2> QED
    BY <2>1, <2>2 DEF k
<1>3. e \in BOOLEAN /\ c \in Secrets /\ u \in Secrets
  BY RecFacts DEF Enabled, Secrets
<1>4. Put(b, l, p) = [q0 EXCEPT !.enabled = e, !.create = c, !.update = u]
  BY DEF Put
<1> HIDE DEF q0, e, c, u
<1>5. Put(b, l, p) \in RequestRec
  BY <1>2, <1>3, <1>4 DEF RequestRec
<1>6. /\ Put(b, l, p).at = "workspace" /\ Put(b, l, p).kind = "put" /\ Put(b, l, p).by = b
      /\ Put(b, l, p).link = l /\ Put(b, l, p).enabled = e /\ Put(b, l, p).create = c
      /\ Put(b, l, p).update = u /\ Put(b, l, p).user = 0 /\ ~Put(b, l, p).ok
  BY <1>2, <1>4 DEF RequestRec
<1> QED
  BY <1>5, <1>6 DEF e, c, u

\* A request that is over.
LEMMA OverIs ==
  ASSUME PublicLinkAssumption
  PROVE  /\ Over \in RequestRec /\ Over.at = "over" /\ Over.kind = "over" /\ Over.by = "over"
         /\ Over.link = NoLink /\ Staged(Over)
<1>1. "over" \in Kinds /\ "over" \in Senders /\ "over" \in Stages /\ NoLink \in Links
  BY DialogRecs DEF Kinds, Senders, Stages
<1> DEFINE q0 == Request("over", "over", NoLink)
<1>2. /\ q0 \in RequestRec /\ q0.kind = "over" /\ q0.by = "over" /\ q0.link = NoLink
  <2> DEFINE k == "over"
  <2>1. k \in Kinds /\ k \in Senders /\ q0 = Request(k, k, NoLink)
    BY <1>1
  <2> HIDE DEF k, q0
  <2>2. /\ q0 \in RequestRec /\ q0.kind = k /\ q0.by = k /\ q0.link = NoLink
    BY <1>1, <2>1, RequestIs
  <2> QED
    BY <2>1, <2>2 DEF k
<1>3. Over = [q0 EXCEPT !.at = "over"]
  BY DEF Over
<1> HIDE DEF q0
<1>4. /\ Over \in RequestRec /\ Over.at = "over" /\ Over.kind = "over" /\ Over.by = "over"
      /\ Over.link = NoLink
  BY <1>1, <1>2, <1>3, AtStage
<1> QED
  BY <1>4 DEF Staged

\* A request is sent.
LEMMA SendsFacts ==
  ASSUME PublicLinkAssumption, Typed, NEW r \in RequestRec, Sends(r)
  PROVE  /\ reqs' \in Seq(RequestRec) /\ Len(reqs') = Len(reqs) + 1 /\ Len(reqs') <= MaxRequests
         /\ DOMAIN reqs' = 1..(Len(reqs) + 1) /\ reqs'[Len(reqs) + 1] = r
         /\ \A j \in DOMAIN reqs : reqs'[j] = reqs[j]
         /\ overlapped' = (overlapped \/ Active # {}) /\ overlapped' \in BOOLEAN
<1>1. /\ Len(reqs) < MaxRequests /\ reqs' = Append(reqs, r) /\ reqs \in Seq(RequestRec)
      /\ Len(reqs) \in Nat /\ MaxRequests \in Nat /\ DOMAIN reqs = 1..Len(reqs)
  BY RequestFacts, Ids DEF Sends, Typed, RequestsTyped
<1>2. /\ reqs' \in Seq(RequestRec) /\ Len(reqs') = Len(reqs) + 1 /\ reqs'[Len(reqs) + 1] = r
      /\ \A j \in 1..Len(reqs) : reqs'[j] = reqs[j]
  BY <1>1, AppendProperties
<1>3. DOMAIN reqs' = 1..(Len(reqs) + 1)
  BY <1>2, LenProperties
<1> QED
  BY <1>1, <1>2, <1>3 DEF Sends, Typed, ClientTyped

----------------------------------------------------------------------------
(***************************************************************************)
(* Types: the handlers.                                                    *)
(***************************************************************************)

\* A step of a handler: what it says of its request and of the stores is all
\* that is left to show.
LEMMA HandlerStep ==
  ASSUME PublicLinkAssumption, Typed, NEW i \in DOMAIN reqs, NEW r \in RequestRec,
         NEW a \in Stages, Goes(i, r, a), Internal, StoresTyped',
         a \notin {"answer"} => Staged(reqs'[i])
  PROVE  Typed'
<1>1. Staged(reqs'[i])
  BY GoesFacts DEF Staged
<1>2. RequestsTyped'
  BY <1>1, GoesFacts, RequestTyped
<1>3. ClientTyped' /\ failures' \in 0..MaxFailures
  BY DEF Internal, client, Typed, ClientTyped
<1> QED
  BY <1>2, <1>3 DEF Typed

\* A handler gives up.
LEMMA FailsTyped ==
  ASSUME PublicLinkAssumption, Typed, NEW i \in DOMAIN reqs, Fails(i), Internal, StoresTyped'
  PROVE  Typed'
<1>1. reqs[i] \in RequestRec /\ "answer" \in Stages /\ Goes(i, reqs[i], "answer")
  BY RequestFacts DEF Fails, Stages
<1> QED
  BY <1>1, HandlerStep

\* A link gets the identifier of its request.
LEMMA UuidIs ==
  ASSUME PublicLinkAssumption, NEW r \in RequestRec, NEW i \in 1..MaxRequests
  PROVE  \E q \in RequestRec :
           /\ q = [r EXCEPT !.link.uuid = i] /\ q.kind = r.kind /\ q.by = r.by
           /\ q.enabled = r.enabled /\ q.create = r.create /\ q.update = r.update
           /\ q.user = r.user /\ q.stored = r.stored /\ q.ok = r.ok
           /\ q.link.uuid = i /\ q.link.login = r.link.login
           /\ q.link.required = r.link.required /\ q.link.named = r.link.named
<1>1. i \in 0..Existing /\ r.link \in Links
  BY Ids, RecFacts
<1> DEFINE l == [r.link EXCEPT !.uuid = i]
<1>2. /\ l \in Links /\ l.uuid = i /\ l.login = r.link.login
      /\ l.required = r.link.required /\ l.named = r.link.named
  BY <1>1 DEF Links
<1> DEFINE q == [r EXCEPT !.link = l]
<1>3. q = [r EXCEPT !.link.uuid = i]
  OBVIOUS
<1>4. /\ q \in RequestRec /\ q.kind = r.kind /\ q.by = r.by
      /\ q.enabled = r.enabled /\ q.create = r.create /\ q.update = r.update
      /\ q.user = r.user /\ q.stored = r.stored /\ q.ok = r.ok /\ q.link = l
  <2> HIDE DEF l
  <2> QED
    BY <1>2 DEF RequestRec
<1> HIDE DEF l, q
<1> QED
  BY <1>2, <1>3, <1>4

\* What GetOrCreateWorkspace does.
LEMMA WorkspaceFacts ==
  ASSUME PublicLinkAssumption, Typed, NEW i \in DOMAIN reqs, GetOrCreateWorkspace(i),
         NEW r, r = reqs[i]
  PROVE  /\ r.at = "workspace" /\ r.kind \in {"put", "delete", "get"}
         /\ \/ /\ r.link.uuid \in workspaces /\ r.link.uuid # 0 /\ UNCHANGED workspaces
               /\ \/ r.kind = "put" /\ Goes(i, r, "user")
                  \/ r.kind = "delete" /\ Goes(i, r, "remove")
                  \/ r.kind = "get" /\ Goes(i, r, "reload")
            \/ /\ r.link.uuid = 0 /\ r.link.named /\ workspaces' = workspaces \cup {i}
               /\ Goes(i, [r EXCEPT !.link.uuid = i], "user")
            \/ /\ IF r.link.uuid = 0 THEN ~r.link.named ELSE r.link.uuid \notin workspaces
               /\ Fails(i) /\ UNCHANGED workspaces
         /\ UNCHANGED <<users, docs>> /\ Internal
BY DEF GetOrCreateWorkspace, At

\* The workspace.
LEMMA WorkspaceTyped ==
  ASSUME PublicLinkAssumption, Typed, NEW i \in DOMAIN reqs, GetOrCreateWorkspace(i)
  PROVE  Typed'
<1> DEFINE r == reqs[i]
<1>1. r \in RequestRec /\ i \in 1..MaxRequests /\ i \in Id
  BY RequestFacts
<1>2. /\ "user" \in Stages /\ "remove" \in Stages /\ "reload" \in Stages
  BY DEF Stages
<1>3. UNCHANGED <<users, docs>> /\ Internal
  BY WorkspaceFacts
<1>4. ASSUME UNCHANGED workspaces PROVE StoresTyped'
  BY <1>3, <1>4 DEF Typed, StoresTyped
<1>5. ASSUME r.link.uuid # 0, UNCHANGED workspaces, NEW a \in {"user", "remove", "reload"}, Goes(i, r, a)
      PROVE  Typed'
  <2>1. a \in Stages
    BY <1>2
  <2>2. reqs'[i].link = r.link /\ reqs'[i].at = a
    BY <1>1, <1>5, <2>1, GoesFacts
  <2>3. Staged(reqs'[i])
    BY <1>5, <2>2 DEF Staged
  <2> HIDE DEF r
  <2> QED
    BY <1>1, <1>3, <1>4, <1>5, <2>1, <2>3, HandlerStep
<1>6. ASSUME workspaces' = workspaces \cup {i}, Goes(i, [r EXCEPT !.link.uuid = i], "user")
      PROVE  Typed'
  <2>1. PICK q \in RequestRec : q = [r EXCEPT !.link.uuid = i] /\ q.link.uuid = i
    <3> HIDE DEF r
    <3> QED
      BY <1>1, UuidIs
  <2>2. StoresTyped'
    BY <1>1, <1>3, <1>6 DEF Typed, StoresTyped
  <2>3. Goes(i, q, "user")
    BY <1>6, <2>1
  <2> DEFINE a == "user"
  <2>4. a \in Stages /\ a = "user" /\ Goes(i, q, a) /\ q \in RequestRec
    BY <1>2, <2>1, <2>3
  <2> HIDE DEF a
  <2>5. reqs'[i].link = q.link /\ reqs'[i].at = a
    BY <2>4, GoesFacts
  <2>6. Staged(reqs'[i])
    BY <1>1, <2>1, <2>4, <2>5, Ids DEF Staged
  <2> QED
    BY <1>3, <2>2, <2>4, <2>6, HandlerStep
<1>7. ASSUME Fails(i), UNCHANGED workspaces PROVE Typed'
  BY <1>3, <1>4, <1>7, FailsTyped
<1> QED
  BY <1>5, <1>6, <1>7, WorkspaceFacts

\* Request r after it made user i.
OpenedBy(q, r, i) ==
  /\ q = [r EXCEPT !.link.login = i, !.link.required = r.enabled, !.user = i]
  /\ q.kind = r.kind /\ q.by = r.by /\ q.enabled = r.enabled
  /\ q.create = r.create /\ q.update = r.update /\ q.user = i
  /\ q.stored = r.stored /\ q.ok = r.ok /\ q.link.uuid = r.link.uuid
  /\ q.link.login = i /\ q.link.required = r.enabled
  /\ q.link.named = r.link.named

\* The user that a request makes: its link is opened by it.
LEMMA UserIs ==
  ASSUME PublicLinkAssumption, NEW r \in RequestRec, NEW i \in 1..MaxRequests
  PROVE  \E q \in RequestRec : OpenedBy(q, r, i)
<1>1. i \in 0..Existing /\ r.link \in Links /\ r.enabled \in BOOLEAN
  BY Ids, RecFacts
<1> DEFINE l == [r.link EXCEPT !.login = i, !.required = r.enabled]
<1>2. /\ l \in Links /\ l.uuid = r.link.uuid /\ l.login = i
      /\ l.required = r.enabled /\ l.named = r.link.named
  BY <1>1 DEF Links
<1> DEFINE q == [r EXCEPT !.link = l, !.user = i]
<1>3. q = [r EXCEPT !.link.login = i, !.link.required = r.enabled, !.user = i]
  BY <1>1 DEF RequestRec, Links
<1>4. /\ q \in RequestRec /\ q.kind = r.kind /\ q.by = r.by
      /\ q.enabled = r.enabled /\ q.create = r.create /\ q.update = r.update
      /\ q.user = i /\ q.stored = r.stored /\ q.ok = r.ok /\ q.link = l
  <2> HIDE DEF l
  <2> QED
    BY <1>1, <1>2 DEF RequestRec
<1>5. OpenedBy(q, r, i)
  <2> HIDE DEF l, q
  <2> QED
    BY <1>2, <1>3, <1>4 DEF OpenedBy
<1> QED
  BY <1>4, <1>5

\* What CreateHiddenUser does: it fails without the password it needs, or makes
\* a user with it.
LEMMA CreateFacts ==
  ASSUME PublicLinkAssumption, Typed, NEW i \in DOMAIN reqs, NEW password \in Secrets,
         NEW r, r = reqs[i], CreateHiddenUser(i, r, password)
  PROVE  \/ /\ r.enabled /\ password = "none" /\ Fails(i) /\ UNCHANGED users
         \/ /\ ~r.enabled \/ password # "none"
            /\ users' \in [Id -> Passwords \cup {"none", "default"}]
            /\ users'[i] = (IF r.enabled THEN password ELSE "default") /\ users'[i] # "none"
            /\ \A u \in Id : u # i => users'[u] = users[u]
            /\ users'[i] = "default" <=> ~r.enabled
            /\ \E q \in RequestRec :
                 /\ q.kind = r.kind /\ q.by = r.by /\ q.enabled = r.enabled
                 /\ q.create = r.create /\ q.update = r.update /\ q.user = i
                 /\ q.stored = r.stored /\ q.ok = r.ok /\ q.link.uuid = r.link.uuid
                 /\ q.link.login = i /\ q.link.required = r.enabled
                 /\ q.link.named = r.link.named /\ Goes(i, q, "acls")
<1>1. CASE r.enabled /\ password = "none" /\ Fails(i) /\ UNCHANGED users
  BY <1>1
<1>2. CASE /\ ~r.enabled \/ password # "none"
           /\ users' = [users EXCEPT ![i] = IF r.enabled THEN password ELSE "default"]
           /\ Goes(i, [r EXCEPT !.link.login = i, !.link.required = r.enabled, !.user = i], "acls")
  <2> DEFINE p == IF r.enabled THEN password ELSE "default"
  <2>1. r \in RequestRec /\ i \in 1..MaxRequests /\ i \in Id
    BY RequestFacts
  <2> HIDE DEF p
  <2>9. PICK q \in RequestRec : OpenedBy(q, r, i)
    BY <2>1, UserIs
  <2>2. /\ q = [r EXCEPT !.link.login = i, !.link.required = r.enabled, !.user = i]
        /\ q.kind = r.kind /\ q.by = r.by /\ q.enabled = r.enabled
        /\ q.create = r.create /\ q.update = r.update /\ q.user = i
        /\ q.stored = r.stored /\ q.ok = r.ok /\ q.link.uuid = r.link.uuid
        /\ q.link.login = i /\ q.link.required = r.enabled
        /\ q.link.named = r.link.named
    BY <2>9 DEF OpenedBy
  <2> USE DEF p
  <2>4. Goes(i, q, "acls") /\ users' = [users EXCEPT ![i] = p]
    BY <1>2, <2>2
  <2>3. /\ p \in Passwords \cup {"none", "default"} /\ p # "none"
        /\ (p = "default" <=> ~r.enabled)
    BY <1>2 DEF Secrets, PublicLinkAssumption
  <2> HIDE DEF p
  <2>5. users \in [Id -> Passwords \cup {"none", "default"}]
    BY DEF Typed, StoresTyped
  <2>6. /\ users' \in [Id -> Passwords \cup {"none", "default"}] /\ users'[i] = p
        /\ \A u \in Id : u # i => users'[u] = users[u]
    BY <2>1, <2>3, <2>4, <2>5
  <2> QED
    BY <1>2, <2>2, <2>3, <2>4, <2>6 DEF p
<1> QED
  BY <1>1, <1>2 DEF CreateHiddenUser

\* A user is made, and the types kept.
LEMMA CreateTyped ==
  ASSUME PublicLinkAssumption, Typed, NEW i \in DOMAIN reqs, NEW password \in Secrets,
         CreateHiddenUser(i, reqs[i], password), reqs[i].link.uuid # 0,
         UNCHANGED <<workspaces, docs>>, Internal
  PROVE  Typed'
<1> DEFINE r == reqs[i]
<1>1. i \in 1..MaxRequests /\ i \in Id /\ i # 0 /\ "acls" \in Stages
  BY RequestFacts, Ids DEF Stages
<1>2. CASE Fails(i) /\ UNCHANGED users
  <2>1. StoresTyped'
    BY <1>2 DEF Typed, StoresTyped
  <2> QED
    BY <1>2, <2>1, FailsTyped
<1>3. ASSUME users' \in [Id -> Passwords \cup {"none", "default"}],
             NEW q \in RequestRec, q.link.uuid = r.link.uuid, q.link.login = i, q.user = i,
             Goes(i, q, "acls")
      PROVE  Typed'
  <2>1. StoresTyped'
    BY <1>3 DEF Typed, StoresTyped
  <2>2. reqs'[i].link = q.link /\ reqs'[i].user = i /\ reqs'[i].at = "acls"
    BY <1>1, <1>3, GoesFacts
  <2>3. Staged(reqs'[i])
    BY <1>1, <1>3, <2>2 DEF Staged
  <2> QED
    BY <1>1, <1>3, <2>1, <2>3, HandlerStep
<1> QED
  BY <1>2, <1>3, CreateFacts

\* The hidden user.
LEMMA UserTyped ==
  ASSUME PublicLinkAssumption, Typed, NEW i \in DOMAIN reqs, GetOrCreateHiddenUser(i)
  PROVE  Typed'
<1> DEFINE r == reqs[i]
<1>1. /\ r \in RequestRec /\ Staged(r) /\ r.at = "user" /\ "load" \in Stages
      /\ r.link.uuid # 0 /\ r.create \in Secrets
  BY RequestFacts, RecFacts DEF GetOrCreateHiddenUser, At, Stages, Staged
<1>2. UNCHANGED <<workspaces, docs>> /\ Internal
  BY DEF GetOrCreateHiddenUser
<1>3. CASE CreateHiddenUser(i, r, r.create)
  BY <1>1, <1>2, <1>3, CreateTyped
<1>4. ASSUME r.link.login # 0, UNCHANGED users, NEW u,
             u = IF users[r.link.login] = "none" THEN 0 ELSE r.link.login,
             Goes(i, [r EXCEPT !.user = u], "load")
      PROVE  Typed'
  <2>1. u \in 0..Existing
    BY <1>1, <1>4, RecFacts, Ids
  <2> DEFINE q == [r EXCEPT !.user = u]
  <2>2. q \in RequestRec /\ q.link = r.link
    BY <1>1, <2>1 DEF RequestRec
  <2> HIDE DEF q
  <2>3. Goes(i, q, "load")
    BY <1>4 DEF q
  <2>4. reqs'[i].link = r.link /\ reqs'[i].at = "load"
    BY <1>1, <2>2, <2>3, GoesFacts
  <2>5. Staged(reqs'[i]) /\ StoresTyped'
    BY <1>1, <1>2, <1>4, <2>4 DEF Staged, Typed, StoresTyped
  <2> QED
    BY <1>1, <1>2, <2>2, <2>3, <2>5, HandlerStep
<1> QED
  BY <1>3, <1>4 DEF GetOrCreateHiddenUser

\* Request r with document d loaded.
Loads(q, r, d) ==
  /\ q = [r EXCEPT !.stored = d]
  /\ q.kind = r.kind /\ q.by = r.by /\ q.enabled = r.enabled
  /\ q.create = r.create /\ q.update = r.update /\ q.user = r.user
  /\ q.stored = d /\ q.ok = r.ok /\ q.link = r.link

\* A request with the document it loaded.
LEMMA StoredIs ==
  ASSUME NEW r \in RequestRec, NEW d \in Docs
  PROVE  \E q \in RequestRec : Loads(q, r, d)
<1> DEFINE q == [r EXCEPT !.stored = d]
<1>1. q \in RequestRec /\ Loads(q, r, d)
  BY DEF RequestRec, Loads
<1> QED
  BY <1>1

\* A request that keeps the protection of the document.
LEMMA RequiredIs ==
  ASSUME NEW r \in RequestRec, NEW b \in BOOLEAN
  PROVE  \E q \in RequestRec :
           /\ q = [r EXCEPT !.link.required = b]
           /\ q.kind = r.kind /\ q.by = r.by /\ q.enabled = r.enabled
           /\ q.create = r.create /\ q.update = r.update /\ q.user = r.user
           /\ q.stored = r.stored /\ q.ok = r.ok /\ q.link.uuid = r.link.uuid
           /\ q.link.login = r.link.login /\ q.link.required = b
           /\ q.link.named = r.link.named
<1>1. r.link \in Links
  BY RecFacts
<1> DEFINE l == [r.link EXCEPT !.required = b]
<1>2. /\ l \in Links /\ l.uuid = r.link.uuid /\ l.login = r.link.login
      /\ l.required = b /\ l.named = r.link.named
  BY <1>1 DEF Links
<1> DEFINE q == [r EXCEPT !.link = l]
<1>3. q = [r EXCEPT !.link.required = b]
  OBVIOUS
<1>4. /\ q \in RequestRec /\ q.kind = r.kind /\ q.by = r.by
      /\ q.enabled = r.enabled /\ q.create = r.create /\ q.update = r.update
      /\ q.user = r.user /\ q.stored = r.stored /\ q.ok = r.ok /\ q.link = l
  <2> HIDE DEF l
  <2> QED
    BY <1>2 DEF RequestRec
<1> HIDE DEF l, q
<1> QED
  BY <1>2, <1>3, <1>4

\* What an update does with the document it loaded: it drops the user, or keeps
\* it with the protection of the document.
LEMMA LoadedFacts ==
  ASSUME PublicLinkAssumption, Typed, NEW i \in DOMAIN reqs, NEW d \in Docs, Loaded(i, d),
         NEW r, r = reqs[i]
  PROVE  \E q \in RequestRec :
           /\ q.kind = r.kind /\ q.by = r.by /\ q.enabled = r.enabled
           /\ q.create = r.create /\ q.update = r.update /\ q.user = r.user
           /\ q.stored = d /\ q.ok = r.ok /\ q.link.uuid = r.link.uuid
           /\ q.link.login = r.link.login /\ q.link.named = r.link.named
           /\ \/ Changes(r, d) /\ q.link.required = r.link.required /\ Goes(i, q, "drop")
              \/ ~Changes(r, d) /\ q.link.required = d.protected /\ Goes(i, q, "acls")
<1>1. r \in RequestRec /\ d.protected \in BOOLEAN
  BY RequestFacts, RecFacts
<1>2. PICK p \in RequestRec :
         /\ p = [r EXCEPT !.stored = d]
         /\ p.kind = r.kind /\ p.by = r.by /\ p.enabled = r.enabled
         /\ p.create = r.create /\ p.update = r.update /\ p.user = r.user
         /\ p.stored = d /\ p.ok = r.ok /\ p.link = r.link
  BY <1>1, StoredIs DEF Loads
<1>3. /\ Changes(p, d) => Goes(i, p, "drop")
      /\ ~Changes(p, d) => Goes(i, [p EXCEPT !.link.required = d.protected], "acls")
  BY <1>2 DEF Loaded
<1>4. Changes(p, d) <=> Changes(r, d)
  BY <1>2 DEF Changes
<1>5. CASE Changes(r, d)
  BY <1>2, <1>3, <1>4, <1>5
<1>6. CASE ~Changes(r, d)
  <2>1. PICK q \in RequestRec :
           /\ q = [p EXCEPT !.link.required = d.protected]
           /\ q.kind = p.kind /\ q.by = p.by /\ q.enabled = p.enabled
           /\ q.create = p.create /\ q.update = p.update /\ q.user = p.user
           /\ q.stored = p.stored /\ q.ok = p.ok /\ q.link.uuid = p.link.uuid
           /\ q.link.login = p.link.login /\ q.link.required = d.protected
           /\ q.link.named = p.link.named
    BY <1>1, RequiredIs
  <2>2. Goes(i, q, "acls")
    BY <1>3, <1>4, <1>6, <2>1
  <2> QED
    BY <1>2, <1>6, <2>1, <2>2
<1> QED
  BY <1>5, <1>6

\* The document of an update is loaded, or cannot be.
LEMMA LoadedTyped ==
  ASSUME PublicLinkAssumption, Typed, NEW i \in DOMAIN reqs, NEW d \in Docs, Loaded(i, d),
         reqs[i].link.uuid # 0, reqs[i].link.login # 0, UNCHANGED stores
  PROVE  StoresTyped' /\ RequestsTyped'
<1>1. StoresTyped'
  BY DEF stores, Typed, StoresTyped
<1>2. PICK q \in RequestRec : /\ q.link.uuid = reqs[i].link.uuid /\ q.link.login = reqs[i].link.login
                              /\ Goes(i, q, "drop") \/ Goes(i, q, "acls")
  BY LoadedFacts
<1>3. "drop" \in Stages /\ "acls" \in Stages
  BY DEF Stages
<1>4. ASSUME NEW a \in {"drop", "acls"}, Goes(i, q, a) PROVE RequestsTyped'
  <2>1. a \in Stages
    BY <1>3
  <2>2. reqs'[i].link = q.link /\ reqs'[i].at = a
    BY <1>4, <2>1, GoesFacts
  <2>3. Staged(reqs'[i])
    BY <1>2, <2>2 DEF Staged
  <2> QED
    BY <1>4, <2>1, <2>3, GoesFacts, RequestTyped
<1> QED
  BY <1>1, <1>2, <1>4

\* The document.
LEMMA LoadTyped ==
  ASSUME PublicLinkAssumption, Typed, NEW i \in DOMAIN reqs, LoadHashDocument(i)
  PROVE  Typed'
<1> DEFINE r == reqs[i]
           d == docs[r.link.uuid]
<1>1. r \in RequestRec /\ Staged(r) /\ r.at = "load"
  BY RequestFacts DEF LoadHashDocument, At
<1>2. UNCHANGED stores /\ Internal
  BY DEF LoadHashDocument
<1>3. r.link.uuid # 0 /\ d \in Docs
  BY <1>1, RecFacts, Ids DEF Staged, Typed, StoresTyped
<1>4. StoresTyped'
  BY <1>2 DEF stores, Typed, StoresTyped
<1>5. CASE At(i, {"put"}, "load") /\ Loaded(i, d)
  <2>1. r.link.login # 0
    BY <1>1, <1>5 DEF At, Staged
  <2> HIDE DEF d
  <2>2. RequestsTyped'
    BY <1>2, <1>3, <1>5, <2>1, LoadedTyped
  <2>3. ClientTyped' /\ failures' \in 0..MaxFailures
    BY <1>2 DEF Internal, client, Typed, ClientTyped
  <2> QED
    BY <1>4, <2>2, <2>3 DEF Typed
<1>6. CASE Fails(i)
  BY <1>2, <1>4, <1>6, FailsTyped
<1>7. CASE r.kind = "delete" /\ Goes(i, [r EXCEPT !.stored = d], "unlink")
  <2> HIDE DEF d
  <2>1. PICK q \in RequestRec : Loads(q, r, d)
    BY <1>1, <1>3, StoredIs
  <2> DEFINE a == "unlink"
  <2>2. a \in Stages /\ a = "unlink" /\ Goes(i, q, a) /\ q.link = r.link
    BY <1>7, <2>1 DEF Stages, Loads
  <2> HIDE DEF a
  <2>3. reqs'[i].link = r.link /\ reqs'[i].at = a
    BY <2>2, GoesFacts
  <2>4. Staged(reqs'[i])
    BY <1>3, <2>2, <2>3 DEF Staged
  <2> QED
    BY <1>2, <1>4, <2>2, <2>4, HandlerStep
<1> QED
  BY <1>5, <1>6, <1>7 DEF LoadHashDocument, At

\* A request that succeeds.
LEMMA OkIs ==
  ASSUME NEW r \in RequestRec
  PROVE  \E q \in RequestRec :
           /\ q = [r EXCEPT !.ok = TRUE] /\ q.kind = r.kind /\ q.by = r.by
           /\ q.link = r.link /\ q.stored = r.stored /\ q.ok
<1> DEFINE q == [r EXCEPT !.ok = TRUE]
<1>1. /\ q \in RequestRec /\ q.kind = r.kind /\ q.by = r.by
      /\ q.link = r.link /\ q.stored = r.stored /\ q.ok
  BY DEF RequestRec
<1>2. q = [r EXCEPT !.ok = TRUE]
  OBVIOUS
<1> HIDE DEF q
<1> QED
  BY <1>1, <1>2

\* A request that succeeds with the link it loaded.
LEMMA OkLinkIs ==
  ASSUME NEW r \in RequestRec, NEW l \in Links
  PROVE  \E q \in RequestRec :
           /\ q = [r EXCEPT !.ok = TRUE, !.link = l] /\ q.kind = r.kind /\ q.by = r.by
           /\ q.link = l /\ q.ok /\ q.create = r.create /\ q.update = r.update
<1> DEFINE q == [r EXCEPT !.ok = TRUE, !.link = l]
<1>1. /\ q \in RequestRec /\ q.kind = r.kind /\ q.by = r.by /\ q.link = l /\ q.ok
      /\ q.create = r.create /\ q.update = r.update
  BY DEF RequestRec
<1>2. q = [r EXCEPT !.ok = TRUE, !.link = l]
  OBVIOUS
<1> HIDE DEF q
<1> QED
  BY <1>1, <1>2

\* The former user is dropped, or the user of a link that is deleted.
LEMMA DropTyped ==
  ASSUME PublicLinkAssumption, Typed, NEW i \in DOMAIN reqs, DeleteHiddenUser(i)
  PROVE  Typed'
<1> DEFINE r == reqs[i]
<1>1. r \in RequestRec /\ Staged(r) /\ r.at = "drop" /\ "answer" \in Stages /\ "renew" \in Stages
  BY RequestFacts DEF DeleteHiddenUser, At, Stages
<1>2. UNCHANGED <<workspaces, docs>> /\ Internal /\ users' = Dropped(r.stored)
  BY DEF DeleteHiddenUser
<1>3. StoresTyped'
  BY <1>2 DEF Typed, StoresTyped, Dropped
<1>4. CASE r.kind = "put" /\ Goes(i, r, "renew")
  <2>1. reqs'[i].link = r.link /\ reqs'[i].at = "renew" /\ reqs'[i].kind = "put"
    BY <1>1, <1>4, GoesFacts
  <2>2. Staged(reqs'[i])
    BY <1>1, <1>4, <2>1 DEF Staged
  <2> QED
    BY <1>1, <1>2, <1>3, <1>4, <2>2, HandlerStep
<1>5. CASE Goes(i, [r EXCEPT !.ok = TRUE], "answer")
  <2>1. PICK q \in RequestRec : q = [r EXCEPT !.ok = TRUE]
    BY <1>1, OkIs
  <2>2. Goes(i, q, "answer")
    BY <1>5, <2>1
  <2> QED
    BY <1>1, <1>2, <1>3, <2>2, HandlerStep
<1> QED
  BY <1>4, <1>5 DEF DeleteHiddenUser, At

\* The user is made again.
LEMMA RenewTyped ==
  ASSUME PublicLinkAssumption, Typed, NEW i \in DOMAIN reqs, RenewHiddenUser(i)
  PROVE  Typed'
<1> DEFINE r == reqs[i]
           p == IF r.stored.protected THEN r.update ELSE r.create
<1>1. r \in RequestRec /\ Staged(r) /\ r.at = "renew"
  BY RequestFacts DEF RenewHiddenUser, At
<1>2. p \in Secrets /\ r.link.uuid # 0
  BY <1>1, RecFacts DEF Staged
<1>3. CreateHiddenUser(i, r, p) /\ UNCHANGED <<workspaces, docs>> /\ Internal
  BY DEF RenewHiddenUser
<1> HIDE DEF p
<1> QED
  BY <1>2, <1>3, CreateTyped

\* Stages that only change the stage of their request.
LEMMA MovesTyped ==
  ASSUME PublicLinkAssumption, Typed, NEW i \in DOMAIN reqs, NEW a \in Stages,
         Goes(i, reqs[i], a), Internal, StoresTyped', reqs[i].link.uuid # 0,
         reqs[i].link.login # 0 \/ reqs[i].kind # "put" \/ a \notin {"load", "drop", "renew", "acls", "store"},
         a = "store" => reqs[i].user # 0 /\ reqs[i].link.login # 0
  PROVE  Typed'
<1>1. reqs[i] \in RequestRec
  BY RequestFacts
<1>2. /\ reqs'[i].link = reqs[i].link /\ reqs'[i].at = a /\ reqs'[i].kind = reqs[i].kind
      /\ reqs'[i].user = reqs[i].user
  BY <1>1, GoesFacts
<1>3. Staged(reqs'[i])
  BY <1>2 DEF Staged
<1> QED
  BY <1>1, <1>3, HandlerStep

\* The rights of the user, the document, and the two deletions.
LEMMA CallsTyped ==
  ASSUME PublicLinkAssumption, Typed, NEW i \in DOMAIN reqs,
         UpdateACLs(i) \/ StoreHashDocument(i) \/ DeleteWorkspace(i) \/ DeleteHashDocument(i)
  PROVE  Typed'
<1> DEFINE r == reqs[i]
           l == r.link
<1>1. /\ r \in RequestRec /\ Staged(r) /\ l \in Links /\ r.at \notin {"workspace", "answer", "over"}
      /\ Internal
  BY RequestFacts, RecFacts
     DEF UpdateACLs, StoreHashDocument, DeleteWorkspace, DeleteHashDocument, At
<1>2. l.uuid # 0 /\ l.uuid \in Id /\ l.login \in 0..Existing /\ l.required \in BOOLEAN
  BY <1>1, RecFacts, Ids DEF Staged
<1>3. /\ "store" \in Stages /\ "reload" \in Stages /\ "load" \in Stages /\ "drop" \in Stages
  BY DEF Stages
<1>4. StoresTyped'
  <2>1. CASE UpdateACLs(i) \/ DeleteWorkspace(i)
    BY <2>1 DEF UpdateACLs, DeleteWorkspace, stores, Typed, StoresTyped
  <2>2. CASE StoreHashDocument(i)
    <3>1. [login |-> l.login, protected |-> l.required] \in Docs
      BY <1>2 DEF Docs
    <3> QED
      BY <2>2, <3>1 DEF StoreHashDocument, Typed, StoresTyped
  <2>3. CASE DeleteHashDocument(i)
    BY <2>3, DialogRecs DEF DeleteHashDocument, Typed, StoresTyped
  <2> QED
    BY <2>1, <2>2, <2>3
<1>5. CASE Fails(i)
  BY <1>1, <1>4, <1>5, FailsTyped
<1>6. CASE r.kind = "put" /\ r.at = "acls" /\ r.user # 0 /\ Goes(i, r, "store")
  <2>1. l.login # 0
    BY <1>1, <1>6 DEF Staged
  <2> QED
    BY <1>1, <1>2, <1>3, <1>4, <1>6, <2>1, MovesTyped
<1>7. CASE Goes(i, r, "reload")
  BY <1>1, <1>2, <1>3, <1>4, <1>7, MovesTyped
<1>8. ASSUME r.kind = "delete", NEW a \in {"load", "drop"}, Goes(i, r, a) PROVE Typed'
  BY <1>1, <1>2, <1>3, <1>4, <1>8, MovesTyped
<1> QED
  BY <1>5, <1>6, <1>7, <1>8
     DEF UpdateACLs, StoreHashDocument, DeleteWorkspace, DeleteHashDocument, At

\* The link is loaded again for the answer.
LEMMA ReloadTyped ==
  ASSUME PublicLinkAssumption, Typed, NEW i \in DOMAIN reqs, Reload(i)
  PROVE  Typed'
<1> DEFINE r == reqs[i]
           d == docs[r.link.uuid]
           l == Link(r.link.uuid, d.login, d.protected, TRUE)
<1>1. r \in RequestRec /\ Staged(r) /\ r.at = "reload" /\ "answer" \in Stages
  BY RequestFacts DEF Reload, At, Stages
<1>2. UNCHANGED stores /\ Internal
  BY DEF Reload
<1>3. StoresTyped'
  BY <1>2 DEF stores, Typed, StoresTyped
<1>4. CASE Fails(i)
  BY <1>2, <1>3, <1>4, FailsTyped
<1>5. CASE Goes(i, [r EXCEPT !.ok = TRUE, !.link = l], "answer")
  <2>1. r.link.uuid \in Id /\ r.link.uuid \in 0..Existing
    BY <1>1, RecFacts, Ids DEF Staged
  <2>2. d.login \in 0..Existing /\ d.protected \in BOOLEAN
    BY <2>1, RecFacts DEF Typed, StoresTyped
  <2>3. l \in Links
    BY <2>1, <2>2, LinkIs
  <2> HIDE DEF l
  <2>4. PICK q \in RequestRec : q = [r EXCEPT !.ok = TRUE, !.link = l]
    <3> HIDE DEF r
    <3> QED
      BY <1>1, <2>3, OkLinkIs
  <2>5. Goes(i, q, "answer")
    BY <1>5, <2>4
  <2> QED
    BY <1>1, <1>2, <1>3, <2>5, HandlerStep
<1> QED
  BY <1>4, <1>5 DEF Reload

\* A call fails.
LEMMA CallFailsTyped ==
  ASSUME PublicLinkAssumption, Typed, NEW i \in DOMAIN reqs, CallFails(i)
  PROVE  Typed'
<1> DEFINE r == reqs[i]
<1>1. /\ r \in RequestRec /\ Staged(r) /\ r.at \notin {"answer", "over"} /\ "answer" \in Stages
      /\ UNCHANGED <<mandatory, client, stores, overlapped>>
  BY RequestFacts DEF CallFails, Stages
<1>2. failures' \in 0..MaxFailures
  BY DEF CallFails, Typed, PublicLinkAssumption
<1>3. ClientTyped' /\ StoresTyped'
  BY <1>1 DEF client, stores, Typed, ClientTyped, StoresTyped
<1>4. CASE At(i, {"put"}, "load") /\ Loaded(i, NoDoc)
  <2>1. r.link.uuid # 0 /\ r.link.login # 0
    BY <1>1, <1>4 DEF At, Staged
  <2>2. RequestsTyped'
    BY <1>1, <1>4, <2>1, LoadedTyped, DialogRecs
  <2> QED
    BY <1>2, <1>3, <2>2 DEF Typed
<1>5. CASE Fails(i)
  <2>1. Goes(i, r, "answer")
    BY <1>5 DEF Fails
  <2>2. reqs'[i].at = "answer"
    BY <1>1, <2>1, GoesFacts
  <2>3. Staged(reqs'[i])
    BY <2>2 DEF Staged
  <2>4. RequestsTyped'
    BY <1>1, <2>1, <2>3, GoesFacts, RequestTyped
  <2> QED
    BY <1>2, <1>3, <2>4 DEF Typed
<1> QED
  BY <1>4, <1>5 DEF CallFails

----------------------------------------------------------------------------
(***************************************************************************)
(* Types: the dialog.                                                      *)
(***************************************************************************)

\* A request is sent.
LEMMA SendsTyped ==
  ASSUME PublicLinkAssumption, Typed, NEW r \in RequestRec, r.at = "workspace", Sends(r)
  PROVE  RequestsTyped' /\ overlapped' \in BOOLEAN
<1>1. /\ reqs' \in Seq(RequestRec) /\ Len(reqs') <= MaxRequests
      /\ DOMAIN reqs' = 1..(Len(reqs) + 1) /\ reqs'[Len(reqs) + 1] = r
      /\ \A j \in DOMAIN reqs : reqs'[j] = reqs[j]
      /\ overlapped' \in BOOLEAN
  BY SendsFacts
<1>2. Staged(r)
  BY DEF Staged
<1>3. ASSUME NEW j \in 1..(Len(reqs) + 1) PROVE Staged(reqs'[j])
  <2>1. DOMAIN reqs = 1..Len(reqs) /\ Len(reqs) \in Nat
    BY RequestFacts
  <2>2. j = Len(reqs) + 1 \/ j \in DOMAIN reqs
    BY <2>1
  <2>3. CASE j \in DOMAIN reqs
    BY <1>1, <2>3, RequestFacts
  <2> QED
    BY <1>1, <1>2, <2>2, <2>3
<1> QED
  BY <1>1, <1>3 DEF RequestsTyped

\* A link is put by the dialog.
LEMMA PutTyped ==
  ASSUME PublicLinkAssumption, Typed, NEW b \in {"save", "toggle", "other"}, NEW l \in Links,
         NEW p \in [create : Secrets, update : Secrets], Sends(Put(b, l, p))
  PROVE  RequestsTyped' /\ overlapped' \in BOOLEAN
<1>1. b \in Senders
  BY DEF Senders
<1> DEFINE q == Put(b, l, p)
<1>2. q \in RequestRec /\ q.at = "workspace"
  BY <1>1, PutIs
<1> HIDE DEF q
<1>3. Sends(q)
  BY DEF q
<1> QED
  BY <1>2, <1>3, SendsTyped

\* The dialog's own state.
LEMMA DialogFacts ==
  ASSUME PublicLinkAssumption, Typed
  PROVE  /\ link \in Links /\ original \in Links
         /\ passwords \in [create : Secrets, update : Secrets]
         /\ passwords.create \in Secrets /\ passwords.update \in Secrets
         /\ link.uuid \in 0..Existing /\ link.login \in 0..Existing
         /\ link.required \in BOOLEAN /\ link.named \in BOOLEAN
BY RecFacts DEF Typed, ClientTyped

\* Requests of the dialog.
LEMMA SendTyped ==
  ASSUME PublicLinkAssumption, Typed,
         Save \/ Toggle \/ \E p \in Passwords : EnableWithPassword(p)
  PROVE  Typed'
<1>1. CASE Save
  <2>1. RequestsTyped' /\ overlapped' \in BOOLEAN
    <3>1. CASE Sends(Put("save", link, passwords))
      BY <3>1, PutTyped, DialogFacts
    <3>2. CASE UNCHANGED <<reqs, overlapped>>
      BY <3>2 DEF Typed, RequestsTyped, ClientTyped
    <3> QED
      BY <1>1, <3>1, <3>2 DEF Save
  <2>2. /\ UNCHANGED <<mandatory, link, original, dirty, passwords, toggling, stores, failures>>
        /\ saving' = TRUE
    BY <1>1 DEF Save
  <2> QED
    BY <2>1, <2>2 DEF Typed, ClientTyped, StoresTyped, stores
<1>2. CASE Toggle
  <2>1. RequestsTyped' /\ overlapped' \in BOOLEAN
    <3>1. CASE Sends(Put("toggle", link, passwords))
      BY <3>1, PutTyped, DialogFacts
    <3>2. CASE Sends(Request("delete", "toggle", link))
      <4> DEFINE k == "delete"
                 b == "toggle"
                 q == Request(k, b, link)
      <4>1. k \in Kinds /\ b \in Senders
        BY DEF Kinds, Senders
      <4>2. Sends(q) /\ q = Request(k, b, link)
        BY <3>2
      <4> HIDE DEF k, b, q
      <4>3. q \in RequestRec /\ q.at = "workspace"
        BY <4>1, <4>2, RequestIs, DialogFacts
      <4> QED
        BY <4>2, <4>3, SendsTyped
    <3> QED
      BY <1>2, <3>1, <3>2 DEF Toggle
  <2>2. /\ UNCHANGED <<mandatory, link, original, dirty, passwords, saving, stores, failures>>
        /\ toggling' = TRUE
    BY <1>2 DEF Toggle
  <2> QED
    BY <2>1, <2>2 DEF Typed, ClientTyped, StoresTyped, stores
<1>3. ASSUME NEW p \in Passwords, EnableWithPassword(p) PROVE Typed'
  <2>1. /\ link' = [link EXCEPT !.required = TRUE] /\ dirty' = TRUE
        /\ passwords' = [passwords EXCEPT !.create = p]
        /\ Sends(Put("other", link', passwords'))
        /\ UNCHANGED <<mandatory, original, saving, toggling, stores, failures>>
    BY <1>3 DEF EnableWithPassword
  <2>2. link' \in Links
    BY <2>1, DialogFacts DEF Links
  <2>3. passwords' \in [create : Secrets, update : Secrets]
    BY <2>1, DialogFacts DEF Secrets
  <2>4. RequestsTyped' /\ overlapped' \in BOOLEAN
    BY <2>1, <2>2, <2>3, PutTyped
  <2> QED
    BY <2>1, <2>2, <2>3, <2>4 DEF Typed, ClientTyped, StoresTyped, stores
<1> QED
  BY <1>1, <1>2, <1>3

\* Edits in the dialog.
LEMMA EditTyped ==
  ASSUME PublicLinkAssumption, Typed,
         UpdateLink \/ ResetPassword \/ RevertChanges \/ \E p \in Passwords : SetUpdatePassword(p)
  PROVE  Typed'
<1>1. UNCHANGED <<mandatory, original, saving, toggling, reqs, stores, failures, overlapped>>
  BY DEF UpdateLink, ResetPassword, RevertChanges, SetUpdatePassword
<1>2. link' \in Links /\ dirty' \in BOOLEAN
  <2>1. [link EXCEPT !.required = FALSE] \in Links
    BY DialogFacts DEF Links
  <2> QED
    BY <2>1, DialogFacts DEF UpdateLink, ResetPassword, RevertChanges, SetUpdatePassword
<1>3. passwords' \in [create : Secrets, update : Secrets]
  <2>1. \A p \in Secrets : [passwords EXCEPT !.update = p] \in [create : Secrets, update : Secrets]
    BY DialogFacts
  <2>2. "none" \in Secrets /\ Passwords \subseteq Secrets
    BY DEF Secrets
  <2> QED
    BY <2>1, <2>2, DialogFacts, DialogRecs
       DEF UpdateLink, ResetPassword, RevertChanges, SetUpdatePassword
<1> QED
  BY <1>1, <1>2, <1>3 DEF Typed, ClientTyped, StoresTyped, RequestsTyped, stores

\* An answer.
LEMMA AnswerTyped ==
  ASSUME PublicLinkAssumption, Typed, NEW i \in DOMAIN reqs, Answer(i)
  PROVE  Typed'
<1> DEFINE r == reqs[i]
<1>1. r \in RequestRec /\ r.link \in Links
  BY RequestFacts, RecFacts
<1>2. reqs' = [reqs EXCEPT ![i] = Over] /\ UNCHANGED <<mandatory, stores, failures, overlapped>>
  BY DEF Answer
<1>3. RequestsTyped'
  <2>1. /\ reqs' \in Seq(RequestRec) /\ Len(reqs') = Len(reqs) /\ DOMAIN reqs' = DOMAIN reqs
        /\ reqs'[i] = Over /\ \A j \in DOMAIN reqs : j # i => reqs'[j] = reqs[j]
    BY <1>2, OverIs, RequestExcept
  <2> QED
    BY <2>1, OverIs, RequestTyped
<1>4. /\ saving' \in BOOLEAN /\ toggling' \in BOOLEAN
      /\ link' \in {link, r.link, emptyLink} /\ original' \in {original, r.link}
      /\ dirty' \in BOOLEAN /\ passwords' \in {passwords, NoPasswords}
  BY DEF Answer, Typed, ClientTyped
<1>5. ClientTyped'
  BY <1>1, <1>2, <1>4, DialogRecs, DialogFacts DEF Typed, ClientTyped
<1> QED
  BY <1>2, <1>3, <1>5 DEF Typed, StoresTyped, stores

\* A dialog on a node with a link or without.
LEMMA InitTyped == ASSUME PublicLinkAssumption, Init PROVE Typed
<1>1. ClientTyped
  BY DialogRecs DEF Init, ClientTyped, PublicLinkAssumption
<1>2. failures \in 0..MaxFailures
  BY DEF Init, PublicLinkAssumption
<1>3. CASE /\ link = emptyLink /\ reqs = <<>> /\ workspaces = {}
           /\ users = [u \in Id |-> "none"] /\ docs = [l \in Id |-> NoDoc]
  <2>1. StoresTyped
    BY <1>3, DialogRecs DEF StoresTyped
  <2>2. <<>> \in Seq(RequestRec) /\ Len(<<>>) = 0 /\ DOMAIN <<>> = {}
    OBVIOUS
  <2>3. RequestsTyped
    BY <1>3, <2>2, Ids DEF RequestsTyped
  <2> QED
    BY <1>1, <1>2, <2>1, <2>3 DEF Typed
<1>4. ASSUME workspaces = {Existing},
             reqs = <<Request("get", "other", Link(Existing, 0, FALSE, FALSE))>>,
             NEW p \in Passwords \cup {"default"},
             users = [u \in Id |-> IF u = Existing THEN p ELSE "none"],
             docs = [l \in Id |-> IF l = Existing
                                  THEN [login |-> Existing, protected |-> p # "default"] ELSE NoDoc]
      PROVE  Typed
  <2>1. [login |-> Existing, protected |-> p # "default"] \in Docs
    BY Ids DEF Docs
  <2>2. StoresTyped
    BY <1>4, <2>1, Ids, DialogRecs DEF StoresTyped
  <2> DEFINE k == "get"
             b == "other"
             l == Link(Existing, 0, FALSE, FALSE)
             q == Request(k, b, l)
  <2>3. k \in Kinds /\ b \in Senders
    BY DEF Kinds, Senders
  <2>4. l \in Links
    BY Ids, LinkIs
  <2>5. reqs = <<q>> /\ q = Request(k, b, l)
    BY <1>4
  <2> HIDE DEF k, b, l, q
  <2>6. q \in RequestRec /\ q.at = "workspace"
    BY <2>3, <2>4, <2>5, RequestIs
  <2>7. reqs \in Seq(RequestRec) /\ Len(reqs) = 1 /\ DOMAIN reqs = {1} /\ reqs[1] = q
    BY <2>5, <2>6
  <2>8. RequestsTyped
    BY <2>6, <2>7, Ids DEF RequestsTyped, Staged
  <2> QED
    BY <1>1, <1>2, <2>2, <2>8 DEF Typed
<1> QED
  BY <1>3, <1>4 DEF Init

\* Every step keeps the types.
LEMMA NextTyped == ASSUME PublicLinkAssumption, Typed, [Next]_vars PROVE Typed'
<1>1. CASE Dialog
  BY <1>1, SendTyped, EditTyped DEF Dialog
<1>2. CASE Requests
  <2>1. ASSUME NEW i \in DOMAIN reqs, Handler(i) PROVE Typed'
    BY <2>1, WorkspaceTyped, UserTyped, LoadTyped, DropTyped, RenewTyped, CallsTyped, ReloadTyped
       DEF Handler
  <2> QED
    BY <1>2, <2>1, AnswerTyped DEF Requests
<1>3. ASSUME NEW i \in DOMAIN reqs, CallFails(i) PROVE Typed'
  BY <1>3, CallFailsTyped
<1>4. CASE UNCHANGED vars
  BY <1>4 DEF vars, client, stores, Typed, ClientTyped, StoresTyped, RequestsTyped
<1> QED
  BY <1>1, <1>2, <1>3, <1>4 DEF Next

\* The inductive invariant of the types holds in every state.
THEOREM Invariance == Spec => []Typed
<1>1. Init => Typed
  BY InitTyped, PublicLinkAssumption
<1>2. Typed /\ [Next]_vars => Typed'
  BY NextTyped, PublicLinkAssumption
<1> QED
  BY <1>1, <1>2, PTL DEF Spec

\* A request that comes to store its document has a user, and names it
\* (UpdateACLsForHiddenUser panics without): TypeOK.
THEOREM TypeCorrect == Spec => []TypeOK
<1>1. Typed => TypeOK
  <2> SUFFICES ASSUME Typed PROVE TypeOK
    OBVIOUS
  <2>1. \A i \in Active :
          /\ reqs[i].link \in Links /\ reqs[i].user \in 0..Existing
          /\ reqs[i].at = "store" => {reqs[i].user, reqs[i].link.login} \subseteq Id
    BY PublicLinkAssumption, RequestFacts, RecFacts, Ids DEF Active, Staged
  <2>2. passwords \in [create : Passwords \cup {"none"}, update : Passwords \cup {"none"}]
    BY DEF Typed, ClientTyped, Secrets
  <2> QED
    BY <2>1, <2>2 DEF Typed, ClientTyped, StoresTyped, RequestsTyped, TypeOK, Docs
<1> QED
  BY <1>1, Invariance, PTL

----------------------------------------------------------------------------
(***************************************************************************)
(* One link: only the toggle creates a workspace, and only while there is  *)
(* none; it succeeds, and until it is answered nobody else knows the link. *)
(***************************************************************************)

\* A uuid that request i may hold, or the dialog for i = 0, when the requests are
\* rs: that of the link that was there, or of a request that is answered, or i.
Known(u, i, rs) ==
  u \in {0, Existing} \/ (u \in DOMAIN rs /\ (u = i \/ rs[u].kind = "over"))

UuidsKnown ==
  /\ Known(link.uuid, 0, reqs) /\ Known(original.uuid, 0, reqs)
  /\ \A i \in DOMAIN reqs : Known(reqs[i].link.uuid, i, reqs)

\* What is not known to the server has nothing of its own: only a link that is
\* there is edited, or put back.
BareLink ==
  /\ dirty => link.uuid # 0
  /\ original = NoLink \/ original.uuid # 0
  /\ link.uuid = 0 /\ link.named => link.login = 0 /\ ~link.required

OneToggle ==
  /\ \A i, j \in DOMAIN reqs : reqs[i].by = "toggle" /\ reqs[j].by = "toggle" => i = j
  /\ \A i \in DOMAIN reqs : reqs[i].by = "toggle" => toggling

\* A request that deletes: the workspace first (ws, the workspaces).
DeleteShape(r, ws) ==
  /\ r.by = "toggle" /\ r.link.uuid # 0
  /\ r.at \in {"load", "unlink", "drop"} \/ r.ok => ws = {}

\* A request that found no link: it creates one, or has none to create.
BareShape(r, ws) ==
  /\ r.by = "toggle" /\ r.at \in {"workspace", "answer"} /\ ~r.ok
  /\ r.at = "workspace" /\ r.link.named =>
       r.link.login = 0 /\ (r.enabled => r.create # "none") /\ ws = {}

\* A request that creates a link cannot fail (ds, the documents).
Creating(r, i) == r.kind = "put" /\ r.link.uuid = i
CreateShape(r, i, ws, ds) ==
  /\ r.by = "toggle" /\ ws = {i} /\ r.at \in {"user", "acls", "store", "reload", "answer"}
  /\ r.at = "user" => r.link.login = 0 /\ (r.enabled => r.create # "none")
  /\ r.at \in {"acls", "store"} => r.user = i /\ r.link.login = i
  /\ r.at = "reload" => ds[i] # NoDoc
  /\ r.at = "answer" => r.ok

Shape(r, i, ws, ds) ==
  /\ r.ok => r.at = "answer"
  /\ r.kind = "get" => r.link.uuid # 0
  /\ r.kind = "delete" => DeleteShape(r, ws)
  /\ r.kind = "put" /\ r.link.uuid = 0 => BareShape(r, ws)
  /\ Creating(r, i) => CreateShape(r, i, ws, ds)

One ==
  /\ \A u, v \in workspaces : u = v
  /\ UuidsKnown /\ BareLink /\ OneToggle
  /\ \A i \in DOMAIN reqs : Shape(reqs[i], i, workspaces, docs)
  /\ link.uuid = 0 /\ link.named => workspaces = {} \/ \E i \in DOMAIN reqs : Creating(reqs[i], i)

\* The inductive invariant of OneLink, while no call fails and a password is not
\* mandatory.
OneKept == ~mandatory /\ failures = 0 => One

\* What is known stays so when requests are sent and answered.
LEMMA KnownKept ==
  ASSUME NEW rs, NEW qs, DOMAIN rs \subseteq DOMAIN qs,
         \A j \in DOMAIN rs : rs[j].kind = "over" => qs[j].kind = "over",
         NEW u, NEW i, Known(u, i, rs)
  PROVE  Known(u, i, qs)
BY DEF Known

\* A request that the toggle did not send does not depend on the stores.
LEMMA ShapeOfOthers ==
  ASSUME NEW r, NEW i, NEW ws, NEW ds, NEW ws2, NEW ds2, Shape(r, i, ws, ds), r.by # "toggle"
  PROVE  Shape(r, i, ws2, ds2)
BY DEF Shape, DeleteShape, BareShape, CreateShape

\* A handler's step: what the dialog and the requests know.
LEMMA HandlerKnows ==
  ASSUME PublicLinkAssumption, Typed, One, NEW i \in DOMAIN reqs, UNCHANGED client,
         DOMAIN reqs' = DOMAIN reqs, \A j \in DOMAIN reqs : j # i => reqs'[j] = reqs[j],
         reqs'[i].kind = reqs[i].kind, reqs'[i].by = reqs[i].by, reqs[i].kind # "over",
         reqs'[i].link.uuid = reqs[i].link.uuid \/ reqs'[i].link.uuid = i
  PROVE  UuidsKnown' /\ BareLink' /\ OneToggle'
<1>1. \A j \in DOMAIN reqs : reqs[j].kind = "over" => reqs'[j].kind = "over"
  OBVIOUS
<1>2. UuidsKnown /\ BareLink /\ OneToggle
  BY DEF One
<1>3. UNCHANGED <<link, original, dirty, toggling>>
  BY DEF client
<1>4. Known(link.uuid, 0, reqs') /\ Known(original.uuid, 0, reqs')
  BY <1>1, <1>2, KnownKept DEF UuidsKnown
<1>5. ASSUME NEW j \in DOMAIN reqs PROVE Known(reqs'[j].link.uuid, j, reqs')
  <2>1. Known(reqs[j].link.uuid, j, reqs')
    BY <1>1, <1>2, KnownKept DEF UuidsKnown
  <2>2. CASE reqs'[j].link.uuid = j
    BY <2>2 DEF Known
  <2> QED
    BY <2>1, <2>2
<1>6. UuidsKnown'
  BY <1>3, <1>4, <1>5 DEF UuidsKnown
<1>7. BareLink'
  BY <1>2, <1>3 DEF BareLink
<1>8. OneToggle'
  BY <1>2, <1>3 DEF OneToggle
<1> QED
  BY <1>6, <1>7, <1>8

\* A handler's step that leaves the workspaces alone, and the documents of the
\* links that others create: the shape of its request is all that is left.
LEMMA HandlerOne ==
  ASSUME PublicLinkAssumption, Typed, One, NEW i \in DOMAIN reqs, UNCHANGED client,
         DOMAIN reqs' = DOMAIN reqs, \A j \in DOMAIN reqs : j # i => reqs'[j] = reqs[j],
         reqs'[i].kind = reqs[i].kind, reqs'[i].by = reqs[i].by, reqs[i].kind # "over",
         reqs'[i].link.uuid = reqs[i].link.uuid, UNCHANGED workspaces,
         \A j \in DOMAIN reqs : j # i /\ Creating(reqs[j], j) => docs'[j] = docs[j],
         Shape(reqs'[i], i, workspaces, docs')
  PROVE  One'
<1>1. UuidsKnown' /\ BareLink' /\ OneToggle'
  BY HandlerKnows
<1>2. ASSUME NEW j \in DOMAIN reqs PROVE Shape(reqs'[j], j, workspaces, docs')
  <2>1. CASE j # i
    <3>1. Shape(reqs[j], j, workspaces, docs) /\ reqs'[j] = reqs[j]
      BY <2>1 DEF One
    <3> QED
      BY <2>1, <3>1 DEF Shape, CreateShape
  <2> QED
    BY <2>1
<1>3. \A j \in DOMAIN reqs : Creating(reqs[j], j) => Creating(reqs'[j], j)
  BY DEF Creating
<1>4. UNCHANGED link
  BY DEF client
<1> QED
  BY <1>1, <1>2, <1>3, <1>4 DEF One

\* A handler's step of the toggle: nobody else looks at the workspaces.
LEMMA ToggleOne ==
  ASSUME PublicLinkAssumption, Typed, One, NEW i \in DOMAIN reqs, UNCHANGED client,
         DOMAIN reqs' = DOMAIN reqs, \A j \in DOMAIN reqs : j # i => reqs'[j] = reqs[j],
         reqs'[i].kind = reqs[i].kind, reqs'[i].by = reqs[i].by, reqs[i].kind # "over",
         reqs'[i].link.uuid = reqs[i].link.uuid \/ reqs'[i].link.uuid = i,
         reqs[i].by = "toggle", \A u, v \in workspaces' : u = v,
         workspaces' = {} \/ Creating(reqs'[i], i),
         Shape(reqs'[i], i, workspaces', docs')
  PROVE  One'
<1>1. UuidsKnown' /\ BareLink' /\ OneToggle'
  BY HandlerKnows
<1>2. ASSUME NEW j \in DOMAIN reqs PROVE Shape(reqs'[j], j, workspaces', docs')
  <2>1. CASE j # i
    <3>1. reqs[j].by # "toggle"
      BY <2>1 DEF One, OneToggle
    <3>2. Shape(reqs[j], j, workspaces, docs) /\ reqs'[j] = reqs[j]
      BY <2>1 DEF One
    <3> QED
      BY <3>1, <3>2, ShapeOfOthers
  <2> QED
    BY <2>1
<1> QED
  BY <1>1, <1>2 DEF One

\* A handler gives up: it was not creating a link.
LEMMA FailsOne ==
  ASSUME PublicLinkAssumption, Typed, One, NEW i \in DOMAIN reqs, Fails(i), Internal,
         UNCHANGED <<workspaces, docs>>, reqs[i].at \notin {"answer", "over"},
         reqs[i].kind # "over", ~Creating(reqs[i], i)
  PROVE  One'
<1> DEFINE r == reqs[i]
<1>1. r \in RequestRec /\ "answer" \in Stages /\ Goes(i, r, "answer") /\ Shape(r, i, workspaces, docs)
  BY RequestFacts DEF Fails, Stages, One
<1>2. /\ DOMAIN reqs' = DOMAIN reqs /\ \A j \in DOMAIN reqs : j # i => reqs'[j] = reqs[j]
      /\ reqs'[i].at = "answer" /\ reqs'[i].kind = r.kind /\ reqs'[i].by = r.by
      /\ reqs'[i].link = r.link /\ reqs'[i].ok = r.ok
  BY <1>1, GoesFacts
<1>3. Shape(reqs'[i], i, workspaces, docs')
  BY <1>1, <1>2 DEF Shape, DeleteShape, BareShape, Creating
<1> QED
  BY <1>2, <1>3, HandlerOne DEF Internal

\* A link that is created is known to its request only.
LEMMA NobodyElse ==
  ASSUME PublicLinkAssumption, Typed, One, NEW i \in DOMAIN reqs, NEW j \in DOMAIN reqs, j # i,
         Creating(reqs[j], j)
  PROVE  reqs[i].link.uuid # j
<1>1. j # 0 /\ j # Existing /\ reqs[j].kind # "over"
  BY RequestFacts, Ids DEF Creating
<1>2. Known(reqs[i].link.uuid, i, reqs)
  BY DEF One, UuidsKnown
<1> QED
  BY <1>1, <1>2 DEF Known

\* What holds of the request of a handler before its step.
LEMMA BeforeStep ==
  ASSUME PublicLinkAssumption, Typed, One, NEW i \in DOMAIN reqs, reqs[i].at \notin {"answer", "over"}
  PROVE  /\ reqs[i] \in RequestRec /\ Shape(reqs[i], i, workspaces, docs) /\ ~reqs[i].ok /\ i # 0
         /\ reqs[i].link.uuid \in 0..Existing /\ i \in 1..MaxRequests /\ Staged(reqs[i])
         /\ reqs[i].link \in Links
<1>1. reqs[i] \in RequestRec /\ i \in 1..MaxRequests /\ Staged(reqs[i])
  BY RequestFacts
<1>2. Shape(reqs[i], i, workspaces, docs)
  BY DEF One
<1> QED
  BY <1>1, <1>2, RecFacts, Ids DEF Shape

\* A request goes on with what it is, to a stage where its shape asks no more.
LEMMA GoesOne ==
  ASSUME PublicLinkAssumption, Typed, One, NEW i \in DOMAIN reqs, Internal,
         NEW q \in RequestRec, NEW a \in Stages, Goes(i, q, a), UNCHANGED workspaces,
         \A j \in DOMAIN reqs : j # i /\ Creating(reqs[j], j) => docs'[j] = docs[j],
         reqs[i].at \notin {"answer", "over"}, reqs[i].kind # "over",
         q.kind = reqs[i].kind, q.by = reqs[i].by, q.link.uuid = reqs[i].link.uuid,
         q.ok => a = "answer",
         q.kind = "get" => q.link.uuid # 0,
         q.kind = "put" => q.link.uuid # 0,
         q.kind = "delete" => /\ q.link.uuid # 0 /\ q.by = "toggle"
                              /\ a \in {"load", "unlink", "drop"} \/ q.ok => workspaces = {},
         Creating(reqs[i], i) =>
           /\ q.by = "toggle" /\ workspaces = {i} /\ a \in {"acls", "store", "reload", "answer"}
           /\ a \in {"acls", "store"} => q.user = i /\ q.link.login = i
           /\ a = "reload" => docs'[i] # NoDoc
           /\ a = "answer" => q.ok
  PROVE  One'
<1>1. /\ DOMAIN reqs' = DOMAIN reqs /\ \A j \in DOMAIN reqs : j # i => reqs'[j] = reqs[j]
      /\ reqs'[i].at = a /\ reqs'[i].kind = q.kind /\ reqs'[i].by = q.by
      /\ reqs'[i].link = q.link /\ reqs'[i].ok = q.ok /\ reqs'[i].user = q.user
  BY GoesFacts
<1>2. Shape(reqs'[i], i, workspaces, docs')
  BY <1>1 DEF Shape, DeleteShape, BareShape, CreateShape, Creating
<1> QED
  BY <1>1, <1>2, HandlerOne DEF Internal

\* The workspace: created by the toggle when there is none.
LEMMA WorkspaceOne ==
  ASSUME PublicLinkAssumption, Typed, One, NEW i \in DOMAIN reqs, GetOrCreateWorkspace(i)
  PROVE  One'
<1> DEFINE r == reqs[i]
<1>1. /\ r.at = "workspace" /\ r.kind \in {"put", "delete", "get"}
      /\ UNCHANGED <<users, docs>> /\ Internal
  BY WorkspaceFacts
<1>2. /\ r \in RequestRec /\ Shape(r, i, workspaces, docs) /\ ~r.ok /\ i # 0 /\ i \in 1..MaxRequests
  BY <1>1, BeforeStep
<1>3. ~Creating(r, i)
  BY <1>1, <1>2 DEF Shape, CreateShape
<1>4. "user" \in Stages /\ "remove" \in Stages /\ "reload" \in Stages
  BY DEF Stages
<1>5. ASSUME r.link.uuid # 0, UNCHANGED workspaces, NEW a \in {"user", "remove", "reload"}, Goes(i, r, a)
      PROVE  One'
  <2>1. a \in Stages
    BY <1>4
  <2>2. r.kind = "delete" => r.by = "toggle"
    BY <1>2 DEF Shape, DeleteShape
  <2> QED
    BY <1>1, <1>2, <1>3, <1>5, <2>1, <2>2, GoesOne
<1>6. ASSUME r.link.uuid = 0, r.link.named, workspaces' = workspaces \cup {i},
             Goes(i, [r EXCEPT !.link.uuid = i], "user")
      PROVE  One'
  <2>1. PICK q \in RequestRec :
           /\ q = [r EXCEPT !.link.uuid = i] /\ q.kind = r.kind /\ q.by = r.by
           /\ q.enabled = r.enabled /\ q.create = r.create /\ q.ok = r.ok
           /\ q.link.uuid = i /\ q.link.login = r.link.login
    <3> HIDE DEF r
    <3> QED
      BY <1>2, UuidIs
  <2>2. r.kind = "put" /\ BareShape(r, workspaces)
    BY <1>1, <1>2, <1>6 DEF Shape, DeleteShape
  <2>3. /\ r.by = "toggle" /\ workspaces = {} /\ r.link.login = 0
        /\ r.enabled => r.create # "none"
    BY <1>1, <1>6, <2>2 DEF BareShape
  <2>4. Goes(i, q, "user")
    BY <1>6, <2>1
  <2> HIDE DEF r
  <2>5. /\ DOMAIN reqs' = DOMAIN reqs /\ \A j \in DOMAIN reqs : j # i => reqs'[j] = reqs[j]
        /\ reqs'[i].at = "user" /\ reqs'[i].kind = q.kind /\ reqs'[i].by = q.by
        /\ reqs'[i].link = q.link /\ reqs'[i].ok = q.ok /\ reqs'[i].enabled = q.enabled
        /\ reqs'[i].create = q.create
    <3> DEFINE a == "user"
    <3>1. a \in Stages /\ Goes(i, q, a)
      BY <1>4, <2>4
    <3>2. a = "user"
      OBVIOUS
    <3> HIDE DEF a
    <3>3. q \in RequestRec
      BY <2>1
    <3>4. /\ DOMAIN reqs' = DOMAIN reqs /\ \A j \in DOMAIN reqs : j # i => reqs'[j] = reqs[j]
          /\ reqs'[i].at = a /\ reqs'[i].kind = q.kind /\ reqs'[i].by = q.by
          /\ reqs'[i].link = q.link /\ reqs'[i].ok = q.ok /\ reqs'[i].enabled = q.enabled
          /\ reqs'[i].create = q.create
      BY <3>1, <3>3, GoesFacts
    <3> QED
      BY <3>2, <3>4
  <2>6. workspaces' = {i} /\ Creating(reqs'[i], i)
    BY <1>6, <2>1, <2>2, <2>3, <2>5 DEF Creating
  <2>7. Shape(reqs'[i], i, workspaces', docs')
    BY <1>2, <2>1, <2>2, <2>3, <2>5, <2>6 DEF Shape, CreateShape
  <2> USE DEF r
  <2> QED
    BY <1>1, <2>1, <2>2, <2>3, <2>5, <2>6, <2>7, ToggleOne DEF Internal
<1>7. CASE Fails(i) /\ UNCHANGED workspaces
  BY <1>1, <1>3, <1>7, FailsOne
<1> QED
  BY <1>5, <1>6, <1>7, WorkspaceFacts

\* A user is made.
LEMMA CreateOne ==
  ASSUME PublicLinkAssumption, Typed, One, NEW i \in DOMAIN reqs, NEW password \in Secrets,
         CreateHiddenUser(i, reqs[i], password), reqs[i].link.uuid # 0, reqs[i].kind = "put",
         reqs[i].at \notin {"answer", "over"},
         Creating(reqs[i], i) => (reqs[i].enabled => password # "none"),
         UNCHANGED <<workspaces, docs>>, Internal
  PROVE  One'
<1> DEFINE r == reqs[i]
<1>1. r \in RequestRec /\ Shape(r, i, workspaces, docs) /\ ~r.ok /\ "acls" \in Stages
  BY BeforeStep DEF Stages
<1>2. CASE r.enabled /\ password = "none" /\ Fails(i)
  BY <1>2, FailsOne
<1>3. ASSUME NEW q \in RequestRec, q.kind = r.kind, q.by = r.by, q.user = i, q.ok = r.ok,
             q.link.uuid = r.link.uuid, q.link.login = i, Goes(i, q, "acls")
      PROVE  One'
  <2>1. Creating(r, i) => r.by = "toggle" /\ workspaces = {i}
    BY <1>1 DEF Shape, CreateShape
  <2> QED
    BY <1>1, <1>3, <2>1, GoesOne
<1> QED
  BY <1>2, <1>3, CreateFacts

\* The hidden user: a link that is created has none.
LEMMA UserOne ==
  ASSUME PublicLinkAssumption, Typed, One, NEW i \in DOMAIN reqs, GetOrCreateHiddenUser(i)
  PROVE  One'
<1> DEFINE r == reqs[i]
<1>1. r.at = "user" /\ r.kind = "put" /\ UNCHANGED <<workspaces, docs>> /\ Internal
  BY DEF GetOrCreateHiddenUser, At
<1>2. /\ r \in RequestRec /\ Shape(r, i, workspaces, docs) /\ ~r.ok /\ Staged(r) /\ "load" \in Stages
      /\ r.create \in Secrets
  BY <1>1, BeforeStep, RecFacts DEF Stages
<1>3. r.link.uuid # 0
  BY <1>1, <1>2 DEF Staged
<1>4. CASE CreateHiddenUser(i, r, r.create)
  <2>1. Creating(r, i) => (r.enabled => r.create # "none")
    BY <1>1, <1>2 DEF Shape, CreateShape
  <2> QED
    BY <1>1, <1>2, <1>3, <1>4, <2>1, CreateOne
<1>5. ASSUME r.link.login # 0, NEW u,
             u = IF users[r.link.login] = "none" THEN 0 ELSE r.link.login,
             Goes(i, [r EXCEPT !.user = u], "load")
      PROVE  One'
  <2>1. u \in 0..Existing
    BY <1>2, <1>5, RecFacts, Ids
  <2> DEFINE q == [r EXCEPT !.user = u]
  <2>2. q \in RequestRec /\ q.link = r.link /\ q.kind = r.kind /\ q.by = r.by /\ q.ok = r.ok
    BY <1>2, <2>1 DEF RequestRec
  <2>3. ~Creating(r, i)
    BY <1>1, <1>2, <1>5 DEF Shape, CreateShape
  <2> HIDE DEF q
  <2>4. Goes(i, q, "load")
    BY <1>5 DEF q
  <2> QED
    BY <1>1, <1>2, <1>3, <2>2, <2>3, <2>4, GoesOne
<1> QED
  BY <1>4, <1>5 DEF GetOrCreateHiddenUser

\* The document of a link that was there.
LEMMA LoadOne ==
  ASSUME PublicLinkAssumption, Typed, One, NEW i \in DOMAIN reqs, LoadHashDocument(i)
  PROVE  One'
<1> DEFINE r == reqs[i]
           d == docs[r.link.uuid]
<1>1. r.at = "load" /\ UNCHANGED <<workspaces, docs>> /\ Internal
  BY DEF LoadHashDocument, At, stores
<1>2. /\ r \in RequestRec /\ Shape(r, i, workspaces, docs) /\ ~r.ok /\ Staged(r)
      /\ r.link.uuid \in 0..Existing
  BY <1>1, BeforeStep
<1>3. r.link.uuid # 0 /\ d \in Docs /\ ~Creating(r, i)
  BY <1>1, <1>2, Ids DEF Staged, Typed, StoresTyped, Shape, CreateShape
<1>4. CASE At(i, {"put"}, "load") /\ Loaded(i, d)
  <2>1. r.kind = "put" /\ "drop" \in Stages /\ "acls" \in Stages
    BY <1>4 DEF At, Stages
  <2> HIDE DEF d
  <2>2. PICK q \in RequestRec : /\ q.kind = r.kind /\ q.by = r.by /\ q.ok = r.ok
                                /\ q.link.uuid = r.link.uuid
                                /\ Goes(i, q, "drop") \/ Goes(i, q, "acls")
    BY <1>3, <1>4, LoadedFacts
  <2> QED
    BY <1>1, <1>2, <1>3, <2>1, <2>2, GoesOne
<1>5. CASE At(i, {"delete"}, "load") /\ Fails(i)
  BY <1>1, <1>3, <1>5, FailsOne DEF At
<1>6. CASE r.kind = "delete" /\ Goes(i, [r EXCEPT !.stored = d], "unlink")
  <2> HIDE DEF d
  <2>1. PICK q \in RequestRec : /\ q = [r EXCEPT !.stored = d] /\ q.link = r.link /\ q.kind = r.kind
                                /\ q.by = r.by /\ q.ok = r.ok
    BY <1>2, <1>3, StoredIs DEF Loads
  <2>2. Goes(i, q, "unlink") /\ "unlink" \in Stages
    BY <1>6, <2>1 DEF Stages
  <2>3. r.by = "toggle" /\ workspaces = {}
    BY <1>1, <1>2, <1>6 DEF Shape, DeleteShape
  <2> QED
    BY <1>1, <1>2, <1>3, <1>6, <2>1, <2>2, <2>3, GoesOne
<1> QED
  BY <1>4, <1>5, <1>6 DEF LoadHashDocument, At

\* The former user, and the one that replaces it.
LEMMA RenewOne ==
  ASSUME PublicLinkAssumption, Typed, One, NEW i \in DOMAIN reqs,
         DeleteHiddenUser(i) \/ RenewHiddenUser(i)
  PROVE  One'
<1> DEFINE r == reqs[i]
<1>1. r.at \in {"drop", "renew"} /\ UNCHANGED <<workspaces, docs>> /\ Internal
  BY DEF DeleteHiddenUser, RenewHiddenUser, At
<1>2. /\ r \in RequestRec /\ Shape(r, i, workspaces, docs) /\ ~r.ok /\ Staged(r)
      /\ "renew" \in Stages /\ "answer" \in Stages
  BY <1>1, BeforeStep DEF Stages
<1>3. r.link.uuid # 0 /\ ~Creating(r, i)
  BY <1>1, <1>2 DEF Staged, Shape, CreateShape
<1>4. CASE r.kind = "put" /\ Goes(i, r, "renew")
  BY <1>1, <1>2, <1>3, <1>4, GoesOne
<1>5. CASE r.kind = "delete" /\ r.at = "drop" /\ Goes(i, [r EXCEPT !.ok = TRUE], "answer")
  <2>1. PICK q \in RequestRec : /\ q = [r EXCEPT !.ok = TRUE] /\ q.link = r.link
                                /\ q.kind = r.kind /\ q.by = r.by
    BY <1>2, OkIs
  <2>2. Goes(i, q, "answer")
    BY <1>5, <2>1
  <2>3. r.by = "toggle" /\ workspaces = {}
    BY <1>2, <1>5 DEF Shape, DeleteShape
  <2> QED
    BY <1>1, <1>2, <1>3, <1>5, <2>1, <2>2, <2>3, GoesOne
<1>6. CASE RenewHiddenUser(i)
  <2> DEFINE p == IF r.stored.protected THEN r.update ELSE r.create
  <2>1. p \in Secrets /\ r.kind = "put" /\ CreateHiddenUser(i, r, p)
    BY <1>2, <1>6, RecFacts DEF RenewHiddenUser, At
  <2> HIDE DEF p
  <2> QED
    BY <1>1, <1>3, <2>1, CreateOne
<1> QED
  BY <1>4, <1>5, <1>6 DEF DeleteHiddenUser, At

\* The rights and the document of a link: those of its own user.
LEMMA StoreOne ==
  ASSUME PublicLinkAssumption, Typed, One, NEW i \in DOMAIN reqs,
         UpdateACLs(i) \/ StoreHashDocument(i)
  PROVE  One'
<1> DEFINE r == reqs[i]
<1>1. r.at \in {"acls", "store"} /\ r.kind = "put" /\ UNCHANGED workspaces /\ Internal
  BY DEF UpdateACLs, StoreHashDocument, At, stores
<1>2. /\ r \in RequestRec /\ Shape(r, i, workspaces, docs) /\ ~r.ok /\ Staged(r) /\ i # 0
      /\ "store" \in Stages /\ "reload" \in Stages /\ r.link.uuid \in 0..Existing
  BY <1>1, BeforeStep DEF Stages
<1>3. /\ r.link.uuid # 0 /\ r.link.uuid \in Id
      /\ Creating(r, i) => r.by = "toggle" /\ workspaces = {i} /\ r.user = i /\ r.link.login = i
  BY <1>1, <1>2, Ids DEF Staged, Shape, CreateShape
<1>4. CASE UpdateACLs(i)
  <2>1. UNCHANGED docs
    BY <1>4 DEF UpdateACLs, stores
  <2>2. CASE r.user = 0 /\ Fails(i)
    BY <1>1, <1>2, <1>3, <2>1, <2>2, FailsOne
  <2>3. CASE Goes(i, r, "store")
    BY <1>1, <1>2, <1>3, <2>1, <2>3, GoesOne
  <2> QED
    BY <1>4, <2>2, <2>3 DEF UpdateACLs
<1>5. CASE StoreHashDocument(i)
  <2> DEFINE u == r.link.uuid
             d == [login |-> r.link.login, protected |-> r.link.required]
  <2>1. docs' = [docs EXCEPT ![u] = d] /\ Goes(i, r, "reload")
    BY <1>5 DEF StoreHashDocument
  <2>2. d.login = r.link.login
    OBVIOUS
  <2>3. docs \in [Id -> Docs]
    BY DEF Typed, StoresTyped
  <2> HIDE DEF d
  <2>4. docs'[u] = d /\ \A v \in Id : v # u => docs'[v] = docs[v]
    BY <1>3, <2>1, <2>3
  <2>5. \A j \in DOMAIN reqs : j # i /\ Creating(reqs[j], j) => docs'[j] = docs[j]
    BY <2>4, NobodyElse, RequestFacts
  <2>6. Creating(r, i) => docs'[i] # NoDoc
    BY <1>2, <1>3, <2>2, <2>4, DialogRecs DEF Creating
  <2> QED
    BY <1>1, <1>2, <1>3, <2>1, <2>5, <2>6, GoesOne
<1> QED
  BY <1>4, <1>5

\* The link is loaded again: one that is created has its document.
LEMMA ReloadOne ==
  ASSUME PublicLinkAssumption, Typed, One, NEW i \in DOMAIN reqs, Reload(i)
  PROVE  One'
<1> DEFINE r == reqs[i]
           d == docs[r.link.uuid]
           l == Link(r.link.uuid, d.login, d.protected, TRUE)
<1>1. r.at = "reload" /\ r.kind \in {"put", "get"} /\ UNCHANGED <<workspaces, docs>> /\ Internal
  BY DEF Reload, At, stores
<1>2. /\ r \in RequestRec /\ Shape(r, i, workspaces, docs) /\ ~r.ok /\ Staged(r)
      /\ r.link.uuid \in 0..Existing /\ "answer" \in Stages
  BY <1>1, BeforeStep DEF Stages
<1>3. r.link.uuid # 0 /\ r.link.uuid \in Id
  BY <1>1, <1>2, Ids DEF Staged
<1>4. CASE d = NoDoc /\ Fails(i)
  <2>1. ~Creating(r, i)
    BY <1>1, <1>2, <1>4 DEF Creating, Shape, CreateShape
  <2> QED
    BY <1>1, <1>4, <2>1, FailsOne
<1>5. CASE Goes(i, [r EXCEPT !.ok = TRUE, !.link = l], "answer")
  <2>1. d.login \in 0..Existing /\ d.protected \in BOOLEAN
    BY <1>3, RecFacts DEF Typed, StoresTyped
  <2>2. l \in Links /\ l.uuid = r.link.uuid
    <3>1. l \in Links
      BY <1>2, <2>1, LinkIs
    <3>2. l.uuid = r.link.uuid
      BY DEF Link
    <3> QED
      BY <3>1, <3>2
  <2> HIDE DEF l
  <2>3. PICK q \in RequestRec : /\ q = [r EXCEPT !.ok = TRUE, !.link = l] /\ q.kind = r.kind
                                /\ q.by = r.by /\ q.link = l /\ q.ok
    <3> HIDE DEF r
    <3> QED
      BY <1>2, <2>2, OkLinkIs
  <2>4. Goes(i, q, "answer")
    BY <1>5, <2>3
  <2>5. Creating(r, i) => r.by = "toggle" /\ workspaces = {i}
    BY <1>2 DEF Shape, CreateShape
  <2> QED
    BY <1>1, <1>2, <1>3, <2>2, <2>3, <2>4, <2>5, GoesOne
<1> QED
  BY <1>4, <1>5 DEF Reload

\* The deletions: the workspace, then the document.
LEMMA DeleteOne ==
  ASSUME PublicLinkAssumption, Typed, One, NEW i \in DOMAIN reqs,
         DeleteWorkspace(i) \/ DeleteHashDocument(i)
  PROVE  One'
<1> DEFINE r == reqs[i]
           u == r.link.uuid
<1>1. r.at \in {"remove", "unlink"} /\ r.kind = "delete" /\ Internal
  BY DEF DeleteWorkspace, DeleteHashDocument, At
<1>2. /\ r \in RequestRec /\ Shape(r, i, workspaces, docs) /\ ~r.ok /\ "load" \in Stages
      /\ "drop" \in Stages /\ u \in 0..Existing
  BY <1>1, BeforeStep DEF Stages
<1>3. u # 0 /\ r.by = "toggle" /\ ~Creating(r, i) /\ u \in Id
  BY <1>1, <1>2, Ids DEF Shape, DeleteShape, Creating
<1>4. CASE DeleteWorkspace(i)
  <2>1. workspaces' = workspaces \ {u} /\ UNCHANGED docs
    BY <1>4 DEF DeleteWorkspace
  <2>2. CASE u \notin workspaces
    <3>1. Fails(i) /\ UNCHANGED workspaces
      BY <1>4, <2>1, <2>2 DEF DeleteWorkspace
    <3> QED
      BY <1>1, <1>3, <2>1, <3>1, FailsOne
  <2>3. CASE u \in workspaces
    <3>1. Goes(i, r, "load")
      BY <1>4, <2>3 DEF DeleteWorkspace
    <3>2. workspaces' = {}
      BY <2>1, <2>3 DEF One
    <3>3. /\ DOMAIN reqs' = DOMAIN reqs /\ \A j \in DOMAIN reqs : j # i => reqs'[j] = reqs[j]
          /\ reqs'[i].at = "load" /\ reqs'[i].kind = r.kind /\ reqs'[i].by = r.by
          /\ reqs'[i].link = r.link /\ reqs'[i].ok = r.ok
      BY <1>2, <3>1, GoesFacts
    <3>4. Shape(reqs'[i], i, workspaces', docs')
      BY <1>1, <1>2, <1>3, <3>2, <3>3 DEF Shape, DeleteShape, Creating
    <3> QED
      BY <1>1, <1>3, <3>2, <3>3, <3>4, ToggleOne DEF Internal
  <2> QED
    BY <2>2, <2>3
<1>5. CASE DeleteHashDocument(i)
  <2>1. /\ docs' = [docs EXCEPT ![u] = NoDoc] /\ UNCHANGED workspaces /\ docs \in [Id -> Docs]
        /\ r.at = "unlink"
    BY <1>5 DEF DeleteHashDocument, At, Typed, StoresTyped
  <2>2. CASE docs[u] = NoDoc
    <3>1. Fails(i) /\ UNCHANGED docs
      BY <1>3, <1>5, <2>1, <2>2 DEF DeleteHashDocument
    <3> QED
      BY <1>1, <1>3, <2>1, <3>1, FailsOne
  <2>3. CASE docs[u] # NoDoc
    <3>1. Goes(i, r, "drop")
      BY <1>5, <2>3 DEF DeleteHashDocument
    <3>2. workspaces = {}
      BY <1>1, <1>2, <2>1 DEF Shape, DeleteShape
    <3>3. \A j \in DOMAIN reqs : j # i /\ Creating(reqs[j], j) => docs'[j] = docs[j]
      BY <1>3, <2>1, NobodyElse, RequestFacts
    <3> QED
      BY <1>1, <1>2, <1>3, <2>1, <3>1, <3>2, <3>3, GoesOne
  <2> QED
    BY <2>2, <2>3
<1> QED
  BY <1>4, <1>5

\* A request is sent: by the toggle, or about a link that is there.
LEMMA SendsOne ==
  ASSUME PublicLinkAssumption, Typed, One, NEW r \in RequestRec, Sends(r),
         UNCHANGED <<link, original, workspaces, docs>>, dirty' = dirty,
         r.at = "workspace", ~r.ok, r.kind \in {"put", "delete"}, r.link = link,
         r.kind = "put" /\ r.link.uuid = 0 =>
           r.by = "toggle" /\ (r.link.named /\ r.enabled => r.create # "none"),
         r.kind = "delete" => r.by = "toggle" /\ r.link.uuid # 0,
         IF r.by = "toggle" THEN ~toggling /\ toggling' ELSE toggling' = toggling
  PROVE  One'
<1> DEFINE n == Len(reqs) + 1
<1>1. /\ DOMAIN reqs' = 1..n /\ reqs'[n] = r /\ \A j \in DOMAIN reqs : reqs'[j] = reqs[j]
      /\ DOMAIN reqs = 1..Len(reqs) /\ Len(reqs) \in Nat /\ n \in 1..MaxRequests
  BY SendsFacts, RequestFacts, Ids
<1> HIDE DEF n
<1>2. /\ DOMAIN reqs \subseteq DOMAIN reqs' /\ n \in DOMAIN reqs' /\ n \notin DOMAIN reqs
      /\ n # 0 /\ n # Existing /\ \A j \in DOMAIN reqs' : j = n \/ j \in DOMAIN reqs
  BY <1>1, Ids DEF n
<1>3. UuidsKnown /\ BareLink /\ OneToggle
  BY DEF One
<1>4. \A j \in DOMAIN reqs : reqs[j].kind = "over" => reqs'[j].kind = "over"
  BY <1>1
<1>5. Known(link.uuid, 0, reqs') /\ Known(original.uuid, 0, reqs')
  BY <1>2, <1>3, <1>4, KnownKept DEF UuidsKnown
<1>6. Known(link.uuid, n, reqs')
  BY <1>5, Ids, <1>1 DEF Known
<1>7. ASSUME NEW j \in DOMAIN reqs' PROVE Known(reqs'[j].link.uuid, j, reqs')
  <2>1. CASE j = n
    BY <1>1, <1>6, <2>1
  <2>2. CASE j \in DOMAIN reqs
    BY <1>1, <1>2, <1>3, <1>4, <2>2, KnownKept DEF UuidsKnown
  <2> QED
    BY <1>2, <2>1, <2>2
<1>8. UuidsKnown'
  BY <1>5, <1>7 DEF UuidsKnown
<1>9. BareLink'
  BY <1>3 DEF BareLink
<1>10. OneToggle'
  BY <1>1, <1>2, <1>3 DEF OneToggle
<1>11. link.uuid # n
  BY <1>2, <1>3 DEF UuidsKnown, Known
<1>12. link.uuid = 0 /\ link.named /\ r.by = "toggle" => workspaces = {}
  <2>1. ASSUME NEW j \in DOMAIN reqs, Creating(reqs[j], j) PROVE reqs[j].by = "toggle"
    BY <2>1 DEF One, Shape, CreateShape
  <2> QED
    BY <1>3, <2>1 DEF One, OneToggle
<1>13. ASSUME NEW j \in DOMAIN reqs' PROVE Shape(reqs'[j], j, workspaces, docs)
  <2>1. CASE j = n
    <3>1. ~Creating(r, n)
      BY <1>11 DEF Creating
    <3>2. r.kind = "put" /\ r.link.uuid = 0 => BareShape(r, workspaces)
      BY <1>3, <1>12 DEF BareShape, BareLink
    <3>3. r.kind = "delete" => DeleteShape(r, workspaces)
      BY DEF DeleteShape
    <3> QED
      BY <1>1, <2>1, <3>1, <3>2, <3>3 DEF Shape
  <2>2. CASE j \in DOMAIN reqs
    BY <1>1, <2>2 DEF One
  <2> QED
    BY <1>2, <2>1, <2>2
<1>14. link.uuid = 0 /\ link.named =>
         workspaces = {} \/ \E j \in DOMAIN reqs' : Creating(reqs'[j], j)
  BY <1>1, <1>2 DEF One
<1> QED
  BY <1>8, <1>9, <1>10, <1>13, <1>14 DEF One

\* The requests of the dialog, while a password is not mandatory.
LEMMA DialogOne ==
  ASSUME PublicLinkAssumption, Typed, One, ~mandatory, Save \/ Toggle
  PROVE  One'
<1>1. link \in Links /\ passwords \in [create : Secrets, update : Secrets]
  BY DialogFacts
<1>2. UNCHANGED <<link, original, workspaces, docs, dirty>>
  BY DEF Save, Toggle, stores
<1>3. CASE Save
  <2>1. dirty /\ link.uuid # 0 /\ toggling' = toggling /\ Sends(Put("save", link, passwords))
    BY <1>3 DEF Save, Throws, One, BareLink
  <2> DEFINE b == "save"
             q == Put(b, link, passwords)
  <2>2. b \in Senders /\ Sends(q)
    BY <2>1 DEF Senders
  <2> HIDE DEF b
  <2>3. q \in RequestRec /\ q.at = "workspace" /\ q.kind = "put" /\ q.by = b /\ q.link = link /\ ~q.ok
    BY <1>1, <2>2, PutIs
  <2> HIDE DEF q
  <2> QED
    BY <1>2, <2>1, <2>2, <2>3, SendsOne DEF b
<1>4. CASE Toggle
  <2>1. ~toggling /\ toggling'
    BY <1>4 DEF Toggle
  <2>2. CASE link.uuid # 0 /\ Sends(Request("delete", "toggle", link))
    <3> DEFINE k == "delete"
               b == "toggle"
               q == Request(k, b, link)
    <3>1. k \in Kinds /\ b \in Senders
      BY DEF Kinds, Senders
    <3>2. Sends(q) /\ q = Request(k, b, link)
      BY <2>2
    <3> HIDE DEF k, b, q
    <3>3. /\ q \in RequestRec /\ q.at = "workspace" /\ q.kind = k /\ q.by = b /\ q.link = link
          /\ ~q.ok
      BY <1>1, <3>1, <3>2, RequestIs
    <3> QED
      BY <1>2, <2>1, <2>2, <3>2, <3>3, SendsOne DEF k, b
  <2>3. CASE link.uuid = 0 /\ Sends(Put("toggle", link, passwords))
    <3> DEFINE b == "toggle"
               q == Put(b, link, passwords)
    <3>1. b \in Senders /\ Sends(q)
      BY <2>3 DEF Senders
    <3> HIDE DEF b
    <3>2. /\ q \in RequestRec /\ q.at = "workspace" /\ q.kind = "put" /\ q.by = b /\ q.link = link
          /\ ~q.ok /\ q.enabled = Enabled(link, passwords)
          /\ q.create = IF passwords.create = "none" /\ ~link.required THEN passwords.update
                        ELSE passwords.create
      BY <1>1, <3>1, PutIs
    <3> HIDE DEF q
    <3>3. q.link.named /\ q.enabled => q.create # "none"
      BY <2>3, <3>2 DEF Enabled, One, BareLink
    <3> QED
      BY <1>2, <2>1, <2>3, <3>1, <3>2, <3>3, SendsOne DEF b
  <2> QED
    BY <1>4, <2>2, <2>3 DEF Toggle
<1> QED
  BY <1>3, <1>4

\* The edits of the dialog: of a link that is there.
LEMMA EditOne ==
  ASSUME PublicLinkAssumption, Typed, One,
         UpdateLink \/ ResetPassword \/ RevertChanges \/ \E p \in Passwords : SetUpdatePassword(p)
  PROVE  One'
<1>1. UNCHANGED <<original, toggling, reqs, workspaces, docs>>
  BY DEF UpdateLink, ResetPassword, RevertChanges, SetUpdatePassword, stores
<1>2. /\ link'.uuid # 0 /\ link'.uuid \in {link.uuid, original.uuid}
  <2>1. [link EXCEPT !.required = FALSE].uuid = link.uuid
    BY DialogFacts DEF Links
  <2> QED
    BY <2>1 DEF UpdateLink, ResetPassword, RevertChanges, SetUpdatePassword, One, BareLink
<1>3. UuidsKnown'
  BY <1>1, <1>2 DEF One, UuidsKnown
<1>4. BareLink' /\ OneToggle'
  BY <1>1, <1>2 DEF One, BareLink, OneToggle
<1> QED
  BY <1>1, <1>2, <1>3, <1>4 DEF One

\* An answer: the link it brings is there, and a link that is gone leaves no
\* workspace.
LEMMA AnswerOne ==
  ASSUME PublicLinkAssumption, Typed, One, NEW i \in DOMAIN reqs, Answer(i)
  PROVE  One'
<1> DEFINE r == reqs[i]
<1>1. /\ r \in RequestRec /\ r.at = "answer" /\ Shape(r, i, workspaces, docs)
      /\ UNCHANGED <<workspaces, docs>> /\ i # 0
  BY RequestFacts, Ids DEF Answer, One, stores
<1>2. /\ DOMAIN reqs' = DOMAIN reqs /\ reqs'[i] = Over
      /\ \A j \in DOMAIN reqs : j # i => reqs'[j] = reqs[j]
  BY OverIs, RequestExcept DEF Answer
<1>3. /\ Over.kind = "over" /\ Over.by = "over" /\ Over.link.uuid = 0 /\ ~Over.ok
  <2>1. Over.ok = FALSE
    BY DEF Over, Request
  <2> QED
    BY <2>1, OverIs, DialogRecs
<1>4. UuidsKnown /\ BareLink /\ OneToggle
  BY DEF One
<1>5. \A j \in DOMAIN reqs : reqs[j].kind = "over" => reqs'[j].kind = "over"
  BY <1>2, <1>3
<1>6. /\ Known(link.uuid, 0, reqs') /\ Known(original.uuid, 0, reqs')
      /\ \A j \in DOMAIN reqs : Known(reqs[j].link.uuid, j, reqs')
  BY <1>2, <1>4, <1>5, KnownKept DEF UuidsKnown
<1>7. Known(r.link.uuid, 0, reqs') /\ Known(0, 0, reqs') /\ Known(0, i, reqs')
  BY <1>2, <1>3, <1>6 DEF Known
<1>8. /\ r.ok /\ r.kind \in {"put", "get"} => r.link.uuid # 0
      /\ r.ok /\ r.kind = "delete" => workspaces = {}
  BY <1>1 DEF Shape, BareShape, DeleteShape
<1>9. \/ ~r.ok /\ UNCHANGED <<link, original, dirty>>
      \/ r.ok /\ r.kind \in {"put", "get"} /\ link' = r.link /\ original' = r.link
      \/ r.ok /\ r.kind = "delete" /\ link' = emptyLink /\ ~dirty' /\ UNCHANGED original
  BY DEF Answer
<1>10. UuidsKnown'
  <2>1. \A j \in DOMAIN reqs : Known(reqs'[j].link.uuid, j, reqs')
    BY <1>2, <1>3, <1>6, <1>7
  <2>2. Known(link'.uuid, 0, reqs') /\ Known(original'.uuid, 0, reqs')
    BY <1>6, <1>7, <1>9, DialogRecs
  <2> QED
    BY <1>2, <2>1, <2>2 DEF UuidsKnown
<1>11. BareLink'
  BY <1>4, <1>8, <1>9, DialogRecs DEF BareLink
<1>12. OneToggle'
  <2>1. toggling' = (toggling /\ r.by # "toggle")
    BY DEF Answer
  <2> QED
    BY <1>2, <1>3, <1>4, <2>1 DEF OneToggle
<1>13. ASSUME NEW j \in DOMAIN reqs PROVE Shape(reqs'[j], j, workspaces, docs)
  <2>1. Shape(Over, i, workspaces, docs)
    BY <1>3 DEF Shape, Creating
  <2> QED
    BY <1>2, <2>1 DEF One
<1>14. link'.uuid = 0 /\ link'.named =>
         workspaces = {} \/ \E j \in DOMAIN reqs : Creating(reqs'[j], j)
  <2>1. CASE r.ok
    BY <1>8, <1>9, <2>1
  <2>2. CASE ~r.ok
    <3>1. ~Creating(r, i)
      BY <1>1, <2>2 DEF Shape, CreateShape
    <3> QED
      BY <1>2, <1>9, <2>2, <3>1 DEF One
  <2> QED
    BY <2>1, <2>2
<1> QED
  BY <1>1, <1>2, <1>10, <1>11, <1>12, <1>13, <1>14 DEF One

\* A dialog on a node with a link or without.
LEMMA InitOne == ASSUME PublicLinkAssumption, Init PROVE One
<1>1. /\ original = NoLink /\ ~dirty /\ Known(original.uuid, 0, reqs)
  BY DialogRecs DEF Init, Known
<1>2. CASE link = emptyLink /\ reqs = <<>> /\ workspaces = {}
  <2>1. DOMAIN reqs = {}
    BY <1>2
  <2> QED
    BY <1>1, <1>2, <2>1, DialogRecs DEF One, UuidsKnown, Known, BareLink, OneToggle
<1>3. CASE /\ link = NoLink /\ workspaces = {Existing}
           /\ reqs = <<Request("get", "other", Link(Existing, 0, FALSE, FALSE))>>
  <2> DEFINE k == "get"
             b == "other"
             l == Link(Existing, 0, FALSE, FALSE)
             q == Request(k, b, l)
  <2>1. k \in Kinds /\ b \in Senders
    BY DEF Kinds, Senders
  <2>2. l \in Links
    BY Ids, LinkIs
  <2>3. l.uuid = Existing
    BY DEF Link
  <2>4. reqs = <<q>> /\ q = Request(k, b, l)
    BY <1>3
  <2> HIDE DEF k, b, l, q
  <2>5. q \in RequestRec /\ q.at = "workspace" /\ q.kind = k /\ q.by = b /\ q.link = l /\ ~q.ok
    BY <2>1, <2>2, <2>4, RequestIs
  <2>6. DOMAIN reqs = {1} /\ reqs[1] = q
    BY <2>4
  <2>7. Existing # 0 /\ Existing # 1
    BY Ids DEF Existing
  <2>8. Shape(q, 1, workspaces, docs)
    BY <2>3, <2>5, <2>7 DEF Shape, Creating, k
  <2>9. UuidsKnown
    <3>1. link.uuid = 0 /\ Known(original.uuid, 0, reqs)
      BY <1>1, <1>3, DialogRecs
    <3>2. \A i \in DOMAIN reqs : reqs[i].link.uuid = Existing
      BY <2>3, <2>5, <2>6
    <3> QED
      BY <3>1, <3>2 DEF UuidsKnown, Known
  <2>10. BareLink /\ OneToggle
    BY <1>1, <1>3, <2>5, <2>6, DialogRecs DEF BareLink, OneToggle, b
  <2> QED
    BY <1>3, <2>6, <2>8, <2>9, <2>10, DialogRecs DEF One
<1> QED
  BY <1>2, <1>3 DEF Init

\* Every step keeps the invariant, while no call fails and no password is
\* mandatory; a call that failed is not forgotten.
LEMMA NextOne == ASSUME PublicLinkAssumption, Typed, OneKept, [Next]_vars PROVE OneKept'
<1>1. /\ UNCHANGED mandatory /\ failures \in Nat
      /\ failures' = failures \/ \E i \in DOMAIN reqs : CallFails(i)
  <2>1. CASE Dialog
    BY <2>1 DEF Dialog, Save, Toggle, UpdateLink, ResetPassword, RevertChanges, EnableWithPassword,
                SetUpdatePassword, Typed
  <2>2. ASSUME NEW i \in DOMAIN reqs, Handler(i) PROVE UNCHANGED <<mandatory, failures>>
    BY <2>2 DEF Handler, GetOrCreateWorkspace, GetOrCreateHiddenUser, LoadHashDocument,
                DeleteHiddenUser, RenewHiddenUser, UpdateACLs, StoreHashDocument, Reload,
                DeleteWorkspace, DeleteHashDocument, Internal
  <2>3. ASSUME NEW i \in DOMAIN reqs, Answer(i) PROVE UNCHANGED <<mandatory, failures>>
    BY <2>3 DEF Answer
  <2>4. ASSUME NEW i \in DOMAIN reqs, CallFails(i) PROVE UNCHANGED mandatory
    BY <2>4 DEF CallFails
  <2> QED
    BY <2>1, <2>2, <2>3, <2>4 DEF Next, Requests, vars, Typed, PublicLinkAssumption
<1> SUFFICES ASSUME ~mandatory, failures' = 0 PROVE One'
  BY <1>1 DEF OneKept
<1>2. failures' = failures /\ One /\ \A i \in DOMAIN reqs : ~CallFails(i)
  BY <1>1 DEF OneKept, CallFails
<1>3. CASE Dialog
  BY <1>2, <1>3, DialogOne, EditOne DEF Dialog, EnableWithPassword
<1>4. CASE Requests
  <2>1. ASSUME NEW i \in DOMAIN reqs, Handler(i) PROVE One'
    BY <1>2, <2>1, WorkspaceOne, UserOne, LoadOne, RenewOne, StoreOne, ReloadOne, DeleteOne
       DEF Handler
  <2> QED
    BY <1>2, <1>4, <2>1, AnswerOne DEF Requests
<1>5. CASE UNCHANGED vars
  BY <1>2, <1>5 DEF vars, client, stores, One, UuidsKnown, BareLink, OneToggle
<1> QED
  BY <1>2, <1>3, <1>4, <1>5 DEF Next

\* A dialog never leaves two links on its node, though its requests overlap and
\* late answers bring back a link that is gone: OneLink.
THEOREM LinkIsOne == Spec => []OneLink
<1>1. Init => Typed /\ OneKept
  BY InitTyped, InitOne, PublicLinkAssumption DEF OneKept
<1>2. Typed /\ OneKept /\ [Next]_vars => Typed' /\ OneKept'
  BY NextTyped, NextOne, PublicLinkAssumption
<1>3. Typed /\ OneKept => OneLink
  <2> SUFFICES ASSUME One PROVE Cardinality(workspaces) <= 1
    BY DEF OneKept, OneLink
  <2>1. CASE workspaces = {}
    BY <2>1, FS_EmptySet
  <2>2. ASSUME NEW u \in workspaces PROVE Cardinality(workspaces) <= 1
    <3>1. workspaces = {u}
      BY DEF One
    <3>2. Cardinality({u}) = 1
      BY FS_Singleton
    <3> QED
      BY <3>1, <3>2
  <2> QED
    BY <2>1, <2>2
<1> QED
  BY <1>1, <1>2, <1>3, PTL DEF Spec

----------------------------------------------------------------------------
(***************************************************************************)
(* Stores that agree: one request at a time, and no call that fails.  What *)
(* is stored at each call of the request that is under way.                *)
(***************************************************************************)

\* User v opens the link, alone, with a password or without (us, the users).
Opens(v, protected, us) ==
  /\ v \in Id /\ \A w \in Id : us[w] # "none" <=> w = v
  /\ protected <=> us[v] # "default"

\* Nothing is stored but workspaces, and nothing but the link u.
NothingBut(us, ds) == \A u \in Id : us[u] = "none" /\ ds[u] = NoDoc
StoredAt(u, us, ds) ==
  /\ u \in Id /\ \A l \in Id : ds[l] # NoDoc <=> l = u
  /\ Opens(ds[u].login, ds[u].protected, us)

\* A link as it is stored, and a put that has the password it will need.
ShownAs(l, ds) == l.login = ds[l.uuid].login /\ l.required = ds[l.uuid].protected
Provided(r, d) == r.enabled /\ ~d.protected => r.create # "none"

GetAgrees(r, ws, us, ds) ==
  /\ r.at \in {"workspace", "reload", "answer"}
  /\ ws = {r.link.uuid} /\ StoredAt(r.link.uuid, us, ds)
  /\ r.at = "answer" => r.ok /\ ShownAs(r.link, ds)

DeleteAgrees(r, ws, us, ds) ==
  /\ r.at \in {"workspace", "remove", "load", "unlink", "drop", "answer"} /\ r.link.uuid # 0
  /\ ws = IF r.at \in {"workspace", "remove"} THEN {r.link.uuid} ELSE {}
  /\ r.at \in {"workspace", "remove", "load", "unlink"} => StoredAt(r.link.uuid, us, ds)
  /\ r.at = "unlink" => r.stored = ds[r.link.uuid]
  /\ r.at = "drop" => \A u \in Id : ds[u] = NoDoc /\ (us[u] # "none" => u = r.stored.login)
  /\ r.at = "answer" => r.ok /\ NothingBut(us, ds)

CreateAgrees(r, us, ds) ==
  r.link.login = 0 /\ (r.enabled => r.create # "none") /\ NothingBut(us, ds)
UpdateAgrees(r, us, ds) ==
  /\ StoredAt(r.link.uuid, us, ds) /\ r.link.login = ds[r.link.uuid].login
  /\ Provided(r, ds[r.link.uuid])

PutAgrees(r, ws, us, ds) ==
  /\ r.at \in {"workspace", "user", "load", "drop", "renew", "acls", "store", "reload", "answer"}
  /\ IF r.link.uuid = 0 THEN ws = {} /\ r.at = "workspace" /\ r.link.named ELSE ws = {r.link.uuid}
  /\ r.at = "workspace" => IF r.link.uuid = 0 THEN CreateAgrees(r, us, ds) ELSE UpdateAgrees(r, us, ds)
  /\ r.at = "user" => IF r.link.login = 0 THEN CreateAgrees(r, us, ds) ELSE UpdateAgrees(r, us, ds)
  /\ r.at \in {"load", "drop"} => UpdateAgrees(r, us, ds)
  /\ r.at = "load" => r.user = r.link.login
  /\ r.at = "drop" => r.stored = ds[r.link.uuid]
  /\ r.at \in {"drop", "renew"} => Changes(r, r.stored) /\ Provided(r, r.stored)
  /\ r.at = "renew" => \A u \in Id : us[u] = "none"
  /\ r.at \in {"renew", "acls", "store"} => \A l \in Id : ds[l] # NoDoc => l = r.link.uuid
  /\ r.at \in {"acls", "store"} => Opens(r.link.login, r.link.required, us) /\ r.user = r.link.login
  /\ r.at \in {"reload", "answer"} => StoredAt(r.link.uuid, us, ds)
  /\ r.at = "answer" => r.ok /\ ShownAs(r.link, ds)

Agrees(r, ws, us, ds) ==
  /\ r.kind \in {"put", "get", "delete"}
  /\ r.kind = "get" => GetAgrees(r, ws, us, ds)
  /\ r.kind = "delete" => DeleteAgrees(r, ws, us, ds)
  /\ r.kind = "put" => PutAgrees(r, ws, us, ds)

\* The dialog before its link is loaded.
Loading == link.uuid = 0 /\ original = NoLink /\ ~dirty /\ passwords.create = "none"

\* The dialog and the stores while no request is under way, without a link or
\* with the one that is stored: what was edited may be saved, or reverted.
NoneShown ==
  /\ link.uuid = 0 /\ link.login = 0 /\ link.named /\ ~link.required /\ ~dirty
  /\ workspaces = {} /\ NothingBut(users, docs)
LinkShown ==
  /\ workspaces = {link.uuid} /\ StoredAt(link.uuid, users, docs)
  /\ original.uuid = link.uuid /\ ShownAs(original, docs) /\ passwords.create = "none"
  /\ link.login = docs[link.uuid].login
  /\ link.required => docs[link.uuid].protected
  /\ ~dirty => link.required = docs[link.uuid].protected

Agree ==
  /\ \A i, j \in Active : i = j
  /\ Active = {} => NoneShown \/ LinkShown
  /\ \A i \in Active : /\ Agrees(reqs[i], workspaces, users, docs)
                       /\ reqs[i].kind = "get" => Loading

\* The inductive invariant of StoresAgree.
AgreeKept == Undisturbed => Agree

\* The request under way goes on: what is stored for it is all that is left.
LEMMA GoesAgree ==
  ASSUME PublicLinkAssumption, Typed, Agree, NEW i \in DOMAIN reqs, Internal,
         NEW q \in RequestRec, NEW a \in Stages, a # "over", Goes(i, q, a),
         reqs[i].at # "over", q.kind = reqs[i].kind,
         Agrees(reqs'[i], workspaces', users', docs')
  PROVE  Agree'
<1>1. /\ DOMAIN reqs' = DOMAIN reqs /\ \A j \in DOMAIN reqs : j # i => reqs'[j] = reqs[j]
      /\ reqs'[i].at = a /\ reqs'[i].kind = q.kind
  BY GoesFacts
<1>2. i \in Active /\ \A j \in Active : j = i
  BY DEF Active, Agree
<1>3. i \in Active' /\ \A j \in Active' : j = i
  BY <1>1, <1>2 DEF Active
<1>4. reqs'[i].kind = "get" => Loading'
  BY <1>1, <1>2 DEF Agree, Loading, Internal, client
<1> QED
  BY <1>3, <1>4 DEF Agree

\* The request under way.
LEMMA UnderWay ==
  ASSUME PublicLinkAssumption, Typed, Agree, NEW i \in DOMAIN reqs, reqs[i].at # "over"
  PROVE  /\ reqs[i] \in RequestRec /\ Agrees(reqs[i], workspaces, users, docs)
         /\ reqs[i].link.uuid \in 0..Existing /\ reqs[i].link.login \in 0..Existing
         /\ i \in Id /\ i # 0 /\ i \in 1..MaxRequests /\ 0 \notin Id
         /\ users \in [Id -> Passwords \cup {"none", "default"}] /\ docs \in [Id -> Docs]
<1>1. reqs[i] \in RequestRec /\ i \in Id /\ i \in 1..MaxRequests
  BY RequestFacts
<1>2. Agrees(reqs[i], workspaces, users, docs)
  BY DEF Agree, Active
<1> QED
  BY <1>1, <1>2, RecFacts, Ids DEF Typed, StoresTyped

\* The workspace is found, or made for a link that has nothing yet.
LEMMA WorkspaceAgree ==
  ASSUME PublicLinkAssumption, Typed, Agree, NEW i \in DOMAIN reqs, GetOrCreateWorkspace(i)
  PROVE  Agree'
<1> DEFINE r == reqs[i]
<1>1. /\ r.at = "workspace" /\ r.kind \in {"put", "delete", "get"}
      /\ UNCHANGED <<users, docs>> /\ Internal
  BY WorkspaceFacts
<1>2. /\ r \in RequestRec /\ Agrees(r, workspaces, users, docs) /\ i # 0 /\ i \in 1..MaxRequests
      /\ 0 \notin Id /\ r.link.uuid \in 0..Existing
  BY <1>1, UnderWay
<1>3. "user" \in Stages /\ "remove" \in Stages /\ "reload" \in Stages
  BY DEF Stages
<1>4. IF r.link.uuid = 0 THEN r.link.named /\ r.kind = "put" ELSE r.link.uuid \in workspaces
  BY <1>1, <1>2 DEF Agrees, PutAgrees, GetAgrees, DeleteAgrees, StoredAt
<1>5. ASSUME r.link.uuid # 0, UNCHANGED workspaces, NEW a \in {"user", "remove", "reload"},
             Goes(i, r, a), a = "user" => r.kind = "put", a = "remove" => r.kind = "delete",
             a = "reload" => r.kind = "get"
      PROVE  Agree'
  <2>1. a \in Stages
    BY <1>3
  <2>2. /\ reqs'[i].at = a /\ reqs'[i].kind = r.kind /\ reqs'[i].link = r.link
        /\ reqs'[i].enabled = r.enabled /\ reqs'[i].create = r.create
    BY <1>2, <1>5, <2>1, GoesFacts
  <2>3. CASE a = "user"
    <3>1. workspaces = {r.link.uuid} /\ UpdateAgrees(r, users, docs)
      BY <1>1, <1>2, <1>5, <2>3 DEF Agrees, PutAgrees
    <3>2. UpdateAgrees(reqs'[i], users, docs) /\ r.link.login # 0
      BY <1>2, <2>2, <3>1 DEF UpdateAgrees, Provided, StoredAt, Opens
    <3>3. Agrees(reqs'[i], workspaces', users', docs')
      BY <1>1, <1>5, <2>2, <2>3, <3>1, <3>2 DEF Agrees, PutAgrees
    <3> QED
      BY <1>1, <1>2, <1>5, <2>1, <3>3, GoesAgree
  <2>4. CASE a = "remove"
    <3>1. Agrees(reqs'[i], workspaces', users', docs')
      BY <1>1, <1>2, <1>5, <2>2, <2>4 DEF Agrees, DeleteAgrees
    <3> QED
      BY <1>1, <1>2, <1>5, <2>1, <3>1, GoesAgree
  <2>5. CASE a = "reload"
    <3>1. Agrees(reqs'[i], workspaces', users', docs')
      BY <1>1, <1>2, <1>5, <2>2, <2>5 DEF Agrees, GetAgrees
    <3> QED
      BY <1>1, <1>2, <1>5, <2>1, <3>1, GoesAgree
  <2> QED
    BY <2>3, <2>4, <2>5
<1>6. ASSUME r.link.uuid = 0, workspaces' = workspaces \cup {i},
             Goes(i, [r EXCEPT !.link.uuid = i], "user")
      PROVE  Agree'
  <2>1. PICK q \in RequestRec :
           /\ q = [r EXCEPT !.link.uuid = i] /\ q.kind = r.kind /\ q.enabled = r.enabled
           /\ q.create = r.create /\ q.link.uuid = i /\ q.link.login = r.link.login
    <3> HIDE DEF r
    <3> QED
      BY <1>2, UuidIs
  <2>2. r.kind = "put" /\ workspaces = {} /\ CreateAgrees(r, users, docs)
    BY <1>1, <1>2, <1>4, <1>6 DEF Agrees, PutAgrees
  <2>3. Goes(i, q, "user")
    BY <1>6, <2>1
  <2>4. /\ reqs'[i].at = "user" /\ reqs'[i].kind = q.kind /\ reqs'[i].link = q.link
        /\ reqs'[i].enabled = q.enabled /\ reqs'[i].create = q.create
    BY <1>3, <2>3, GoesFacts
  <2>5. workspaces' = {i} /\ CreateAgrees(reqs'[i], users, docs) /\ reqs'[i].link.login = 0
    BY <1>6, <2>1, <2>2, <2>4 DEF CreateAgrees
  <2>6. Agrees(reqs'[i], workspaces', users', docs')
    BY <1>1, <1>2, <2>1, <2>2, <2>4, <2>5 DEF Agrees, PutAgrees
  <2> QED
    BY <1>1, <1>3, <2>1, <2>3, <2>6, GoesAgree
<1> QED
  BY <1>4, <1>5, <1>6, WorkspaceFacts

\* The user is made of a link that has none.
LEMMA CreateAgree ==
  ASSUME PublicLinkAssumption, Typed, Agree, NEW i \in DOMAIN reqs, NEW password \in Secrets,
         CreateHiddenUser(i, reqs[i], password), reqs[i].at # "over", reqs[i].kind = "put",
         reqs[i].link.uuid # 0, workspaces = {reqs[i].link.uuid},
         \A u \in Id : users[u] = "none",
         \A l \in Id : docs[l] # NoDoc => l = reqs[i].link.uuid,
         reqs[i].enabled => password # "none",
         UNCHANGED <<workspaces, docs>>, Internal
  PROVE  Agree'
<1> DEFINE r == reqs[i]
<1>1. r \in RequestRec /\ i \in Id /\ i # 0 /\ "acls" \in Stages
  BY UnderWay DEF Stages
<1>2. /\ users'[i] # "none" /\ \A u \in Id : u # i => users'[u] = users[u]
      /\ users'[i] = "default" <=> ~r.enabled
  BY CreateFacts
<1>3. PICK q \in RequestRec :
         /\ q.kind = r.kind /\ q.user = i /\ q.link.uuid = r.link.uuid
         /\ q.link.login = i /\ q.link.required = r.enabled /\ Goes(i, q, "acls")
  BY CreateFacts
<1>4. /\ reqs'[i].at = "acls" /\ reqs'[i].kind = q.kind /\ reqs'[i].link = q.link
      /\ reqs'[i].user = q.user
  BY <1>1, <1>3, GoesFacts
<1>5. Opens(i, r.enabled, users')
  BY <1>1, <1>2 DEF Opens
<1>6. Agrees(reqs'[i], workspaces', users', docs')
  BY <1>3, <1>4, <1>5 DEF Agrees, PutAgrees
<1> QED
  BY <1>1, <1>3, <1>6, GoesAgree

\* The hidden user is made, or is the one of the document.
LEMMA UserAgree ==
  ASSUME PublicLinkAssumption, Typed, Agree, NEW i \in DOMAIN reqs, GetOrCreateHiddenUser(i)
  PROVE  Agree'
<1> DEFINE r == reqs[i]
<1>1. r.at = "user" /\ r.kind = "put" /\ UNCHANGED <<workspaces, docs>> /\ Internal
  BY DEF GetOrCreateHiddenUser, At
<1>2. /\ r \in RequestRec /\ Agrees(r, workspaces, users, docs) /\ "load" \in Stages
      /\ r.link.login \in 0..Existing
  BY <1>1, UnderWay DEF Stages
<1>3. /\ r.link.uuid # 0 /\ workspaces = {r.link.uuid} /\ PutAgrees(r, workspaces, users, docs)
  BY <1>1, <1>2 DEF Agrees, PutAgrees
<1>4. CASE r.link.login = 0
  <2>1. CreateAgrees(r, users, docs) /\ CreateHiddenUser(i, r, r.create) /\ r.create \in Secrets
    BY <1>1, <1>2, <1>3, <1>4, RecFacts DEF PutAgrees, GetOrCreateHiddenUser
  <2> QED
    BY <1>1, <1>3, <2>1, CreateAgree DEF CreateAgrees, NothingBut
<1>5. CASE r.link.login # 0
  <2>1. UpdateAgrees(r, users, docs)
    BY <1>1, <1>3, <1>5 DEF PutAgrees
  <2>2. users[r.link.login] # "none"
    BY <2>1 DEF UpdateAgrees, StoredAt, Opens
  <2>3. Goes(i, [r EXCEPT !.user = r.link.login], "load") /\ UNCHANGED users
    BY <1>5, <2>2 DEF GetOrCreateHiddenUser
  <2> DEFINE q == [r EXCEPT !.user = r.link.login]
  <2>4. /\ q \in RequestRec /\ q.link = r.link /\ q.kind = r.kind /\ q.user = r.link.login
        /\ q.enabled = r.enabled /\ q.create = r.create
    BY <1>2 DEF RequestRec
  <2> HIDE DEF q
  <2>5. Goes(i, q, "load")
    BY <2>3 DEF q
  <2>6. /\ reqs'[i].at = "load" /\ reqs'[i].kind = q.kind /\ reqs'[i].link = q.link
        /\ reqs'[i].user = q.user /\ reqs'[i].enabled = q.enabled /\ reqs'[i].create = q.create
    BY <1>2, <2>4, <2>5, GoesFacts
  <2>7. UpdateAgrees(reqs'[i], users, docs)
    BY <2>1, <2>4, <2>6 DEF UpdateAgrees, Provided
  <2>8. Agrees(reqs'[i], workspaces', users', docs')
    BY <1>1, <1>3, <2>3, <2>4, <2>6, <2>7 DEF Agrees, PutAgrees
  <2> QED
    BY <1>1, <1>2, <2>4, <2>5, <2>8, GoesAgree
<1> QED
  BY <1>4, <1>5

\* The document is loaded: the password changes, or the user is kept.
LEMMA LoadAgree ==
  ASSUME PublicLinkAssumption, Typed, Agree, NEW i \in DOMAIN reqs, LoadHashDocument(i)
  PROVE  Agree'
<1> DEFINE r == reqs[i]
           d == docs[r.link.uuid]
<1>1. r.at = "load" /\ UNCHANGED <<workspaces, users, docs>> /\ Internal
  BY DEF LoadHashDocument, At, stores
<1>2. r \in RequestRec /\ Agrees(r, workspaces, users, docs) /\ docs \in [Id -> Docs] /\ 0 \notin Id
  BY <1>1, UnderWay
<1>3. CASE r.kind = "put" /\ Loaded(i, d)
  <2>1. /\ UpdateAgrees(r, users, docs) /\ workspaces = {r.link.uuid} /\ r.link.uuid # 0
        /\ r.user = r.link.login
    BY <1>1, <1>2, <1>3 DEF Agrees, PutAgrees
  <2>2. /\ StoredAt(r.link.uuid, users, docs) /\ r.link.login = d.login /\ Provided(r, d)
        /\ d \in Docs
    BY <1>2, <2>1 DEF UpdateAgrees, StoredAt
  <2>3. Opens(d.login, d.protected, users) /\ \A l \in Id : docs[l] # NoDoc => l = r.link.uuid
    BY <2>2 DEF StoredAt
  <2>4. "drop" \in Stages /\ "acls" \in Stages
    BY DEF Stages
  <2>5. PICK q \in RequestRec :
           /\ q.kind = r.kind /\ q.enabled = r.enabled
           /\ q.create = r.create /\ q.update = r.update /\ q.user = r.user
           /\ q.stored = d /\ q.link.uuid = r.link.uuid /\ q.link.login = r.link.login
           /\ \/ Changes(r, d) /\ Goes(i, q, "drop")
              \/ ~Changes(r, d) /\ q.link.required = d.protected /\ Goes(i, q, "acls")
    <3> HIDE DEF d
    <3> QED
      BY <1>3, <2>2, LoadedFacts
  <2> DEFINE n == reqs'[i]
  <2>6. CASE Changes(r, d) /\ Goes(i, q, "drop")
    <3>1. /\ n.at = "drop" /\ n.kind = q.kind /\ n.link = q.link /\ n.enabled = q.enabled
          /\ n.create = q.create /\ n.update = q.update /\ n.stored = q.stored
      BY <2>4, <2>5, <2>6, GoesFacts
    <3>2. Changes(n, d) /\ Provided(n, d)
      BY <2>2, <2>5, <2>6, <3>1 DEF Changes, Provided
    <3>3. UpdateAgrees(n, users, docs)
      BY <2>1, <2>5, <3>1, <3>2 DEF UpdateAgrees
    <3>4. Agrees(n, workspaces', users', docs')
      BY <1>1, <1>3, <2>1, <2>5, <3>1, <3>2, <3>3 DEF Agrees, PutAgrees
    <3> QED
      BY <1>1, <2>4, <2>5, <2>6, <3>4, GoesAgree
  <2>7. CASE q.link.required = d.protected /\ Goes(i, q, "acls")
    <3>1. n.at = "acls" /\ n.kind = q.kind /\ n.link = q.link /\ n.user = q.user
      BY <2>4, <2>5, <2>7, GoesFacts
    <3>2. Agrees(n, workspaces', users', docs')
      BY <1>1, <1>3, <2>1, <2>2, <2>3, <2>5, <2>7, <3>1 DEF Agrees, PutAgrees
    <3> QED
      BY <1>1, <2>4, <2>5, <2>7, <3>2, GoesAgree
  <2> QED
    BY <2>5, <2>6, <2>7
<1>4. CASE r.kind = "delete"
  <2>1. /\ StoredAt(r.link.uuid, users, docs) /\ workspaces = {} /\ r.link.uuid # 0
    BY <1>1, <1>2, <1>4 DEF Agrees, DeleteAgrees
  <2>2. d # NoDoc /\ d \in Docs
    BY <1>2, <2>1 DEF StoredAt
  <2>3. Goes(i, [r EXCEPT !.stored = d], "unlink") /\ "unlink" \in Stages
    BY <1>4, <2>2 DEF LoadHashDocument, At, Stages
  <2>4. PICK q \in RequestRec : /\ q = [r EXCEPT !.stored = d] /\ q.link = r.link /\ q.kind = r.kind
                                /\ q.stored = d
    <3> HIDE DEF d
    <3> QED
      BY <1>2, <2>2, StoredIs DEF Loads
  <2>5. Goes(i, q, "unlink")
    BY <2>3, <2>4
  <2>6. /\ reqs'[i].at = "unlink" /\ reqs'[i].kind = q.kind /\ reqs'[i].link = q.link
        /\ reqs'[i].stored = q.stored
    BY <2>3, <2>5, GoesFacts
  <2>7. Agrees(reqs'[i], workspaces', users', docs')
    BY <1>1, <1>4, <2>1, <2>4, <2>6 DEF Agrees, DeleteAgrees
  <2> QED
    BY <1>1, <2>3, <2>4, <2>5, <2>7, GoesAgree
<1> QED
  BY <1>3, <1>4 DEF LoadHashDocument, At

\* The former user is dropped, or the user of a link that is deleted.
LEMMA DropAgree ==
  ASSUME PublicLinkAssumption, Typed, Agree, NEW i \in DOMAIN reqs, DeleteHiddenUser(i)
  PROVE  Agree'
<1> DEFINE r == reqs[i]
<1>1. r.at = "drop" /\ UNCHANGED <<workspaces, docs>> /\ Internal /\ users' = Dropped(r.stored)
  BY DEF DeleteHiddenUser, At
<1>2. /\ r \in RequestRec /\ Agrees(r, workspaces, users, docs)
      /\ "renew" \in Stages /\ "answer" \in Stages
  BY <1>1, UnderWay DEF Stages
<1>3. \A u \in Id : users'[u] = IF u = r.stored.login THEN "none" ELSE users[u]
  BY <1>1 DEF Dropped
<1>4. CASE r.kind = "put" /\ Goes(i, r, "renew")
  <2>1. /\ UpdateAgrees(r, users, docs) /\ workspaces = {r.link.uuid} /\ r.link.uuid # 0
        /\ r.stored = docs[r.link.uuid] /\ Changes(r, r.stored) /\ Provided(r, r.stored)
    BY <1>1, <1>2, <1>4 DEF Agrees, PutAgrees
  <2>2. /\ \A u \in Id : users'[u] = "none"
        /\ \A l \in Id : docs[l] # NoDoc => l = r.link.uuid
    BY <1>3, <2>1 DEF UpdateAgrees, StoredAt, Opens
  <2> DEFINE n == reqs'[i]
  <2>3. /\ n.at = "renew" /\ n.kind = r.kind /\ n.link = r.link /\ n.enabled = r.enabled
        /\ n.create = r.create /\ n.update = r.update /\ n.stored = r.stored
    BY <1>2, <1>4, GoesFacts
  <2>4. Changes(n, n.stored) /\ Provided(n, n.stored)
    BY <2>1, <2>3 DEF Changes, Provided
  <2>5. Agrees(n, workspaces', users', docs')
    BY <1>1, <1>4, <2>1, <2>2, <2>3, <2>4 DEF Agrees, PutAgrees
  <2> QED
    BY <1>1, <1>2, <1>4, <2>5, GoesAgree
<1>5. CASE r.kind = "delete" /\ Goes(i, [r EXCEPT !.ok = TRUE], "answer")
  <2>1. PICK q \in RequestRec : /\ q = [r EXCEPT !.ok = TRUE] /\ q.link = r.link
                                /\ q.kind = r.kind /\ q.ok
    BY <1>2, OkIs
  <2>2. Goes(i, q, "answer")
    BY <1>5, <2>1
  <2>3. DeleteAgrees(r, workspaces, users, docs)
    BY <1>2, <1>5 DEF Agrees
  <2>4. workspaces = {} /\ NothingBut(users', docs) /\ r.link.uuid # 0
    BY <1>1, <1>3, <2>3 DEF DeleteAgrees, NothingBut
  <2>5. /\ reqs'[i].at = "answer" /\ reqs'[i].kind = q.kind /\ reqs'[i].link = q.link
        /\ reqs'[i].ok = q.ok
    BY <1>2, <2>2, GoesFacts
  <2>6. Agrees(reqs'[i], workspaces', users', docs')
    BY <1>1, <1>5, <2>1, <2>4, <2>5 DEF Agrees, DeleteAgrees
  <2> QED
    BY <1>1, <1>2, <2>1, <2>2, <2>6, GoesAgree
<1> QED
  BY <1>4, <1>5 DEF DeleteHiddenUser, At

\* The user is made again, with the password that was provided.
LEMMA RenewAgree ==
  ASSUME PublicLinkAssumption, Typed, Agree, NEW i \in DOMAIN reqs, RenewHiddenUser(i)
  PROVE  Agree'
<1> DEFINE r == reqs[i]
           p == IF r.stored.protected THEN r.update ELSE r.create
<1>1. /\ r.at = "renew" /\ r.kind = "put" /\ UNCHANGED <<workspaces, docs>> /\ Internal
      /\ CreateHiddenUser(i, r, p)
  BY DEF RenewHiddenUser, At
<1>2. r \in RequestRec /\ Agrees(r, workspaces, users, docs)
  BY <1>1, UnderWay
<1>3. /\ p \in Secrets /\ workspaces = {r.link.uuid} /\ r.link.uuid # 0
      /\ Changes(r, r.stored) /\ Provided(r, r.stored)
      /\ \A u \in Id : users[u] = "none"
      /\ \A l \in Id : docs[l] # NoDoc => l = r.link.uuid
  BY <1>1, <1>2, RecFacts DEF Agrees, PutAgrees
<1>4. r.enabled => p # "none"
  <2>1. r.enabled \in BOOLEAN /\ r.stored.protected \in BOOLEAN
    BY <1>2, RecFacts
  <2> QED
    BY <1>3, <2>1 DEF Changes, Provided
<1> HIDE DEF p
<1> QED
  BY <1>1, <1>3, <1>4, CreateAgree

\* The rights of the user that opens the link, then its document.
LEMMA StoreAgree ==
  ASSUME PublicLinkAssumption, Typed, Agree, NEW i \in DOMAIN reqs,
         UpdateACLs(i) \/ StoreHashDocument(i)
  PROVE  Agree'
<1> DEFINE r == reqs[i]
           u == r.link.uuid
           n == reqs'[i]
<1>1. /\ r.at \in {"acls", "store"} /\ r.kind = "put" /\ UNCHANGED <<workspaces, users>> /\ Internal
  BY DEF UpdateACLs, StoreHashDocument, At, stores
<1>2. /\ r \in RequestRec /\ Agrees(r, workspaces, users, docs) /\ u \in 0..Existing
      /\ "store" \in Stages /\ "reload" \in Stages /\ docs \in [Id -> Docs] /\ 0 \notin Id
  BY <1>1, UnderWay DEF Stages
<1>3. /\ workspaces = {u} /\ u # 0 /\ u \in Id /\ r.user = r.link.login /\ r.link.login \in Id
      /\ Opens(r.link.login, r.link.required, users)
      /\ \A l \in Id : docs[l] # NoDoc => l = u
  BY <1>1, <1>2, Ids DEF Agrees, PutAgrees, Opens
<1>4. CASE UpdateACLs(i)
  <2>1. Goes(i, r, "store") /\ UNCHANGED docs /\ r.at = "acls"
    BY <1>2, <1>3, <1>4 DEF UpdateACLs, stores, At
  <2>2. n.at = "store" /\ n.kind = r.kind /\ n.link = r.link /\ n.user = r.user
    BY <1>2, <2>1, GoesFacts
  <2>3. Agrees(n, workspaces', users', docs')
    BY <1>1, <1>3, <2>1, <2>2 DEF Agrees, PutAgrees
  <2> QED
    BY <1>1, <1>2, <2>1, <2>3, GoesAgree
<1>5. CASE StoreHashDocument(i)
  <2> DEFINE d == [login |-> r.link.login, protected |-> r.link.required]
  <2>1. docs' = [docs EXCEPT ![u] = d] /\ Goes(i, r, "reload")
    BY <1>5 DEF StoreHashDocument
  <2>2. d.login = r.link.login /\ d.protected = r.link.required
    OBVIOUS
  <2> HIDE DEF d
  <2>3. docs'[u] = d /\ \A v \in Id : v # u => docs'[v] = docs[v]
    BY <1>2, <1>3, <2>1
  <2>4. d # NoDoc
    BY <1>2, <1>3, <2>2, DialogRecs
  <2>5. StoredAt(u, users, docs')
    <3>1. \A l \in Id : docs'[l] # NoDoc <=> l = u
      BY <1>3, <2>3, <2>4
    <3>2. Opens(docs'[u].login, docs'[u].protected, users)
      BY <1>3, <2>2, <2>3
    <3> QED
      BY <1>3, <3>1, <3>2 DEF StoredAt
  <2>6. n.at = "reload" /\ n.kind = r.kind /\ n.link = r.link
    BY <1>2, <2>1, GoesFacts
  <2>7. Agrees(n, workspaces', users', docs')
    BY <1>1, <1>3, <2>5, <2>6 DEF Agrees, PutAgrees
  <2> QED
    BY <1>1, <1>2, <2>1, <2>7, GoesAgree
<1> QED
  BY <1>4, <1>5

\* The link is loaded again as it is stored.
LEMMA ReloadAgree ==
  ASSUME PublicLinkAssumption, Typed, Agree, NEW i \in DOMAIN reqs, Reload(i)
  PROVE  Agree'
<1> DEFINE r == reqs[i]
           u == r.link.uuid
           d == docs[u]
           l == Link(u, d.login, d.protected, TRUE)
<1>1. /\ r.at = "reload" /\ r.kind \in {"put", "get"} /\ UNCHANGED <<workspaces, users, docs>>
      /\ Internal
  BY DEF Reload, At, stores
<1>2. /\ r \in RequestRec /\ Agrees(r, workspaces, users, docs) /\ u \in 0..Existing
      /\ "answer" \in Stages /\ docs \in [Id -> Docs] /\ 0 \notin Id
  BY <1>1, UnderWay DEF Stages
<1>3. workspaces = {u} /\ StoredAt(u, users, docs) /\ u \in Id /\ u # 0 /\ d # NoDoc
  <2>1. workspaces = {u} /\ StoredAt(u, users, docs)
    BY <1>1, <1>2 DEF Agrees, PutAgrees, GetAgrees, StoredAt
  <2> QED
    BY <1>2, <2>1 DEF StoredAt
<1>4. Goes(i, [r EXCEPT !.ok = TRUE, !.link = l], "answer")
  BY <1>3 DEF Reload
<1>5. d.login \in 0..Existing /\ d.protected \in BOOLEAN
  BY <1>2, <1>3, RecFacts
<1>6. l \in Links
  BY <1>2, <1>5, LinkIs
<1>7. l.uuid = u /\ l.login = d.login /\ l.required = d.protected
  BY DEF Link
<1> HIDE DEF l
<1>8. PICK q \in RequestRec : /\ q = [r EXCEPT !.ok = TRUE, !.link = l] /\ q.kind = r.kind
                              /\ q.link = l /\ q.ok
  <2> HIDE DEF r
  <2> QED
    BY <1>2, <1>6, OkLinkIs
<1>9. Goes(i, q, "answer")
  BY <1>4, <1>8
<1>10. /\ reqs'[i].at = "answer" /\ reqs'[i].kind = q.kind /\ reqs'[i].link = q.link
       /\ reqs'[i].ok = q.ok
  BY <1>2, <1>9, GoesFacts
<1>11. ShownAs(reqs'[i].link, docs)
  BY <1>7, <1>8, <1>10 DEF ShownAs
<1>12. Agrees(reqs'[i], workspaces', users', docs')
  BY <1>1, <1>3, <1>7, <1>8, <1>10, <1>11 DEF Agrees, PutAgrees, GetAgrees
<1> QED
  BY <1>1, <1>2, <1>8, <1>9, <1>12, GoesAgree

\* The deletions: the workspace, then the document.
LEMMA DeleteAgree ==
  ASSUME PublicLinkAssumption, Typed, Agree, NEW i \in DOMAIN reqs,
         DeleteWorkspace(i) \/ DeleteHashDocument(i)
  PROVE  Agree'
<1> DEFINE r == reqs[i]
           u == r.link.uuid
           n == reqs'[i]
<1>1. r.at \in {"remove", "unlink"} /\ r.kind = "delete" /\ Internal /\ UNCHANGED users
  BY DEF DeleteWorkspace, DeleteHashDocument, At
<1>2. /\ r \in RequestRec /\ Agrees(r, workspaces, users, docs)
      /\ "load" \in Stages /\ "drop" \in Stages /\ docs \in [Id -> Docs]
  BY <1>1, UnderWay DEF Stages
<1>3. DeleteAgrees(r, workspaces, users, docs) /\ u # 0 /\ StoredAt(u, users, docs)
  BY <1>1, <1>2 DEF Agrees, DeleteAgrees
<1>4. CASE DeleteWorkspace(i)
  <2>1. r.at = "remove" /\ workspaces = {u}
    BY <1>3, <1>4 DEF DeleteAgrees, DeleteWorkspace, At
  <2>2. Goes(i, r, "load") /\ workspaces' = {} /\ UNCHANGED docs
    BY <1>4, <2>1 DEF DeleteWorkspace
  <2>3. n.at = "load" /\ n.kind = r.kind /\ n.link = r.link
    BY <1>2, <2>2, GoesFacts
  <2>4. Agrees(n, workspaces', users', docs')
    BY <1>1, <1>3, <2>2, <2>3 DEF Agrees, DeleteAgrees
  <2> QED
    BY <1>1, <1>2, <2>2, <2>4, GoesAgree
<1>5. CASE DeleteHashDocument(i)
  <2>1. /\ r.at = "unlink" /\ workspaces = {} /\ docs[u] # NoDoc /\ UNCHANGED workspaces
        /\ r.stored = docs[u]
    BY <1>3, <1>5 DEF DeleteAgrees, DeleteHashDocument, At, StoredAt
  <2>2. Goes(i, r, "drop") /\ docs' = [docs EXCEPT ![u] = NoDoc]
    BY <1>5, <2>1 DEF DeleteHashDocument
  <2>3. \A l \in Id : docs'[l] = NoDoc
    BY <1>2, <1>3, <2>2 DEF StoredAt
  <2>4. \A v \in Id : users[v] # "none" => v = r.stored.login
    BY <1>3, <2>1 DEF StoredAt, Opens
  <2>5. n.at = "drop" /\ n.kind = r.kind /\ n.link = r.link /\ n.stored = r.stored
    BY <1>2, <2>2, GoesFacts
  <2>6. Agrees(n, workspaces', users', docs')
    BY <1>1, <1>3, <2>1, <2>3, <2>4, <2>5 DEF Agrees, DeleteAgrees
  <2> QED
    BY <1>1, <1>2, <2>2, <2>6, GoesAgree
<1> QED
  BY <1>4, <1>5

\* A request is sent, while none is under way.
LEMMA SendsAgree ==
  ASSUME PublicLinkAssumption, Typed, Agree, Active = {}, NEW r \in RequestRec, Sends(r),
         r.at = "workspace", r.kind \in {"put", "delete"}, UNCHANGED stores,
         Agrees(r, workspaces, users, docs)
  PROVE  Agree'
<1> DEFINE n == Len(reqs) + 1
<1>1. /\ DOMAIN reqs' = 1..n /\ reqs'[n] = r /\ \A j \in DOMAIN reqs : reqs'[j] = reqs[j]
      /\ DOMAIN reqs = 1..Len(reqs) /\ Len(reqs) \in Nat
  BY SendsFacts, RequestFacts
<1>2. \A j \in DOMAIN reqs : reqs[j].at = "over"
  BY DEF Active
<1>3. \A j \in 1..n : j = n \/ j \in DOMAIN reqs
  BY <1>1
<1>4. n \in 1..n
  BY <1>1
<1> HIDE DEF n
<1>5. n \in Active' /\ \A j \in Active' : j = n
  BY <1>1, <1>2, <1>3, <1>4 DEF Active
<1> QED
  BY <1>1, <1>5 DEF Agree, stores

\* A put or a deletion of the link that the dialog shows.
LEMMA DialogAgree ==
  ASSUME PublicLinkAssumption, Typed, Agree, ~overlapped',
         Save \/ Toggle \/ \E p \in Passwords : EnableWithPassword(p)
  PROVE  Agree'
<1>1. /\ link \in Links /\ passwords \in [create : Secrets, update : Secrets] /\ UNCHANGED stores
      /\ link.required \in BOOLEAN
  BY DialogFacts DEF Save, Toggle, EnableWithPassword
<1>2. ASSUME NEW b \in {"save", "toggle", "other"}, NEW l \in Links,
             NEW p \in [create : Secrets, update : Secrets], Sends(Put(b, l, p)), Active = {},
             \/ /\ l.uuid = 0 /\ l.login = 0 /\ l.named /\ NoneShown
                /\ l.required => p.create # "none"
             \/ /\ l.uuid # 0 /\ LinkShown /\ l = link /\ p = passwords
      PROVE  Agree'
  <2> DEFINE q == Put(b, l, p)
  <2>1. b \in Senders /\ Sends(q)
    BY <1>2 DEF Senders
  <2>2. /\ q \in RequestRec /\ q.at = "workspace" /\ q.kind = "put" /\ q.link = l
        /\ q.enabled = Enabled(l, p)
        /\ q.create = IF p.create = "none" /\ ~l.required THEN p.update ELSE p.create
    BY <2>1, PutIs
  <2> HIDE DEF q
  <2>3. CASE l.uuid = 0
    <3>1. /\ l.login = 0 /\ l.named /\ workspaces = {} /\ NothingBut(users, docs)
          /\ l.required => p.create # "none"
      BY <1>2, <2>3 DEF NoneShown
    <3>2. q.enabled => q.create # "none"
      BY <2>2, <3>1 DEF Enabled
    <3>3. Agrees(q, workspaces, users, docs)
      BY <2>2, <2>3, <3>1, <3>2 DEF Agrees, PutAgrees, CreateAgrees
    <3> QED
      BY <1>1, <1>2, <2>1, <2>2, <3>3, SendsAgree
  <2>4. CASE l.uuid # 0
    <3>1. /\ workspaces = {l.uuid} /\ StoredAt(l.uuid, users, docs) /\ p.create = "none"
          /\ l.login = docs[l.uuid].login
          /\ l.required => docs[l.uuid].protected
      BY <1>2, <2>4 DEF LinkShown
    <3>2. Provided(q, docs[l.uuid])
      BY <2>2, <3>1 DEF Enabled, Provided
    <3>3. UpdateAgrees(q, users, docs)
      BY <2>2, <3>1, <3>2 DEF UpdateAgrees
    <3>4. Agrees(q, workspaces, users, docs)
      BY <2>2, <2>4, <3>1, <3>3 DEF Agrees, PutAgrees
    <3> QED
      BY <1>1, <1>2, <2>1, <2>2, <3>4, SendsAgree
  <2> QED
    BY <2>3, <2>4
<1>3. CASE Save
  <2>1. CASE Sends(Put("save", link, passwords))
    <3>1. Active = {} /\ dirty
      BY <1>3, <2>1 DEF Save, Sends
    <3>2. LinkShown /\ link.uuid # 0
      BY <3>1, Ids DEF Agree, NoneShown, LinkShown, StoredAt
    <3> QED
      BY <1>1, <1>2, <2>1, <3>1, <3>2
  <2>2. CASE UNCHANGED <<reqs, overlapped>>
    <3>1. UNCHANGED <<link, original, dirty, passwords>>
      BY <1>3 DEF Save
    <3> QED
      BY <1>1, <2>2, <3>1 DEF Agree, Active, NoneShown, LinkShown, Loading, stores
  <2> QED
    BY <1>3, <2>1, <2>2 DEF Save
<1>4. CASE Toggle
  <2>1. Active = {} /\ (NoneShown \/ LinkShown)
    BY <1>4 DEF Toggle, Sends, Agree
  <2>2. CASE link.uuid = 0 /\ Sends(Put("toggle", link, passwords))
    <3>1. NoneShown /\ link.login = 0 /\ link.named /\ ~link.required
      BY <2>1, <2>2, Ids DEF NoneShown, LinkShown, StoredAt
    <3> QED
      BY <1>1, <1>2, <2>1, <2>2, <3>1
  <2>3. CASE link.uuid # 0 /\ Sends(Request("delete", "toggle", link))
    <3> DEFINE k == "delete"
               b == "toggle"
               q == Request(k, b, link)
    <3>1. k \in Kinds /\ b \in Senders
      BY DEF Kinds, Senders
    <3>2. Sends(q) /\ q = Request(k, b, link)
      BY <2>3
    <3> HIDE DEF k, b, q
    <3>3. /\ q \in RequestRec /\ q.at = "workspace" /\ q.kind = k /\ q.link = link
      BY <1>1, <3>1, <3>2, RequestIs
    <3>4. workspaces = {link.uuid} /\ StoredAt(link.uuid, users, docs)
      BY <2>1, <2>3 DEF NoneShown, LinkShown
    <3>5. Agrees(q, workspaces, users, docs)
      BY <2>3, <3>3, <3>4 DEF Agrees, DeleteAgrees, k
    <3> QED
      BY <1>1, <2>1, <3>2, <3>3, <3>5, SendsAgree DEF k
  <2> QED
    BY <1>4, <2>2, <2>3 DEF Toggle
<1>5. ASSUME NEW p \in Passwords, EnableWithPassword(p) PROVE Agree'
  <2>1. /\ Active = {} /\ link.uuid = 0 /\ link' = [link EXCEPT !.required = TRUE]
        /\ passwords' = [passwords EXCEPT !.create = p] /\ Sends(Put("other", link', passwords'))
    BY <1>5 DEF EnableWithPassword, Sends
  <2>2. NoneShown
    BY <2>1, Ids DEF Agree, LinkShown, StoredAt
  <2> DEFINE l == [link EXCEPT !.required = TRUE]
             w == [passwords EXCEPT !.create = p]
  <2>3. l \in Links /\ l.uuid = 0 /\ l.login = link.login /\ l.named = link.named
    BY <1>1, <2>1 DEF Links
  <2>4. w \in [create : Secrets, update : Secrets] /\ w.create = p /\ p # "none"
    BY <1>1 DEF Secrets, PublicLinkAssumption
  <2>5. Sends(Put("other", l, w))
    BY <2>1
  <2> HIDE DEF l, w
  <2>6. l.login = 0 /\ l.named /\ w.create # "none"
    BY <2>2, <2>3, <2>4 DEF NoneShown
  <2> QED
    BY <1>2, <2>1, <2>2, <2>3, <2>4, <2>5, <2>6
<1> QED
  BY <1>3, <1>4, <1>5

\* What is edited while no request is under way may be saved, or reverted; while
\* one is, its answer replaces it.
LEMMA EditAgree ==
  ASSUME PublicLinkAssumption, Typed, Agree,
         UpdateLink \/ ResetPassword \/ RevertChanges \/ \E p \in Passwords : SetUpdatePassword(p)
  PROVE  Agree'
<1>1. UNCHANGED <<original, reqs, stores>> /\ UNCHANGED <<workspaces, users, docs>> /\ Active' = Active
  BY DEF UpdateLink, ResetPassword, RevertChanges, SetUpdatePassword, stores, Active
<1>2. [link EXCEPT !.required = FALSE] \in Links /\ link \in Links /\ link.required \in BOOLEAN
  BY DialogFacts DEF Links
<1>3. \A p \in Secrets : [passwords EXCEPT !.update = p].create = passwords.create
  BY DialogFacts
<1>4. link.uuid # 0 \/ (dirty /\ original # NoLink)
  BY DEF UpdateLink, ResetPassword, RevertChanges, SetUpdatePassword
<1>5. ~Loading
  BY <1>4 DEF Loading
<1>6. ASSUME Active = {} PROVE LinkShown'
  <2>1. LinkShown /\ ~NoneShown
    BY <1>4, <1>6 DEF Agree, NoneShown
  <2>2. CASE UpdateLink
    BY <1>1, <2>1, <2>2 DEF UpdateLink, LinkShown
  <2>3. CASE \E p \in Passwords : SetUpdatePassword(p)
    <3>1. UNCHANGED link /\ dirty' /\ passwords'.create = passwords.create
      BY <1>3, <2>3 DEF SetUpdatePassword, Secrets
    <3> QED
      BY <1>1, <2>1, <3>1 DEF LinkShown
  <2>4. CASE ResetPassword
    <3>1. /\ dirty' /\ passwords'.create = passwords.create /\ ~link'.required
          /\ link'.uuid = link.uuid /\ link'.login = link.login
      BY <1>2, <1>3, <2>4 DEF ResetPassword, Secrets, Links
    <3> QED
      BY <1>1, <2>1, <3>1 DEF LinkShown
  <2>5. CASE RevertChanges
    <3>1. ~dirty' /\ link' = original /\ passwords'.create = "none"
      BY <2>5, DialogRecs DEF RevertChanges
    <3> QED
      BY <1>1, <2>1, <3>1 DEF LinkShown, ShownAs
  <2> QED
    BY <2>2, <2>3, <2>4, <2>5
<1> QED
  BY <1>1, <1>5, <1>6 DEF Agree

\* An answer shows what is stored.
LEMMA AnswerAgree ==
  ASSUME PublicLinkAssumption, Typed, Agree, NEW i \in DOMAIN reqs, Answer(i)
  PROVE  Agree'
<1> DEFINE r == reqs[i]
<1>1. /\ r.at = "answer" /\ r.at # "over" /\ UNCHANGED <<workspaces, users, docs>>
      /\ reqs' = [reqs EXCEPT ![i] = Over]
  BY DEF Answer, stores
<1>2. r \in RequestRec /\ Agrees(r, workspaces, users, docs) /\ i \in Active /\ r.link \in Links
  BY <1>1, UnderWay, RecFacts DEF Active
<1>3. Active' = {}
  <2>1. /\ DOMAIN reqs' = DOMAIN reqs /\ reqs'[i] = Over
        /\ \A j \in DOMAIN reqs : j # i => reqs'[j] = reqs[j]
    BY <1>1, OverIs, RequestExcept
  <2>2. \A j \in DOMAIN reqs : j # i => reqs[j].at = "over"
    BY <1>2 DEF Agree, Active
  <2> QED
    BY <2>1, <2>2, OverIs DEF Active
<1>4. CASE r.kind \in {"put", "get"}
  <2>1. /\ r.ok /\ workspaces = {r.link.uuid} /\ StoredAt(r.link.uuid, users, docs)
        /\ ShownAs(r.link, docs)
    BY <1>1, <1>2, <1>4, Ids DEF Agrees, PutAgrees, GetAgrees, StoredAt
  <2>2. r.kind = "get" => ~dirty /\ passwords.create = "none"
    BY <1>2 DEF Agree, Loading
  <2>3. link' = r.link /\ original' = r.link /\ ~dirty' /\ passwords'.create = "none"
    BY <1>4, <2>1, <2>2, DialogRecs DEF Answer
  <2>4. LinkShown'
    BY <1>1, <2>1, <2>3 DEF LinkShown, ShownAs
  <2> QED
    BY <1>3, <2>4 DEF Agree
<1>5. CASE r.kind = "delete"
  <2>1. r.ok /\ workspaces = {} /\ NothingBut(users, docs)
    BY <1>1, <1>2, <1>5 DEF Agrees, DeleteAgrees
  <2>2. link' = emptyLink /\ ~dirty'
    BY <1>5, <2>1 DEF Answer
  <2>3. NoneShown'
    BY <1>1, <2>1, <2>2, DialogRecs DEF NoneShown
  <2> QED
    BY <1>3, <2>3 DEF Agree
<1> QED
  BY <1>2, <1>4, <1>5 DEF Agrees

\* A dialog on a node with a link or without.
LEMMA InitAgree == ASSUME PublicLinkAssumption, Init PROVE Agree
<1>1. ~dirty /\ original = NoLink /\ passwords.create = "none"
  BY DialogRecs DEF Init
<1>2. CASE /\ link = emptyLink /\ reqs = <<>> /\ workspaces = {}
           /\ users = [u \in Id |-> "none"] /\ docs = [l \in Id |-> NoDoc]
  <2>1. Active = {}
    BY <1>2 DEF Active
  <2>2. NoneShown
    BY <1>1, <1>2, DialogRecs DEF NoneShown, NothingBut
  <2> QED
    BY <2>1, <2>2 DEF Agree
<1>3. ASSUME link = NoLink, workspaces = {Existing},
             reqs = <<Request("get", "other", Link(Existing, 0, FALSE, FALSE))>>,
             NEW p \in Passwords \cup {"default"},
             users = [u \in Id |-> IF u = Existing THEN p ELSE "none"],
             docs = [l \in Id |-> IF l = Existing
                                  THEN [login |-> Existing, protected |-> p # "default"] ELSE NoDoc]
      PROVE  Agree
  <2> DEFINE k == "get"
             b == "other"
             l == Link(Existing, 0, FALSE, FALSE)
             q == Request(k, b, l)
             d == [login |-> Existing, protected |-> p # "default"]
  <2>1. k \in Kinds /\ b \in Senders
    BY DEF Kinds, Senders
  <2>2. l \in Links
    BY Ids, LinkIs
  <2>3. l.uuid = Existing /\ d.login = Existing /\ d.protected = (p # "default")
    BY DEF Link
  <2>4. reqs = <<q>> /\ q = Request(k, b, l)
    BY <1>3
  <2> HIDE DEF k, b, l, q, d
  <2>5. q \in RequestRec /\ q.at = "workspace" /\ q.kind = k /\ q.link = l
    BY <2>1, <2>2, <2>4, RequestIs
  <2>6. DOMAIN reqs = {1} /\ reqs[1] = q
    BY <2>4
  <2>7. Existing \in Id /\ d # NoDoc /\ p # "none"
    BY <2>3, Ids, DialogRecs DEF PublicLinkAssumption
  <2>8. /\ docs[Existing] = d /\ \A v \in Id : v # Existing => docs[v] = NoDoc
        /\ users[Existing] = p /\ \A v \in Id : v # Existing => users[v] = "none"
    BY <1>3, <2>7 DEF d
  <2>9. StoredAt(Existing, users, docs)
    BY <2>3, <2>7, <2>8 DEF StoredAt, Opens
  <2>10. Agrees(q, workspaces, users, docs)
    BY <1>3, <2>3, <2>5, <2>9 DEF Agrees, GetAgrees, k
  <2>11. Active = {1}
    BY <2>5, <2>6 DEF Active
  <2>12. Loading
    BY <1>1, <1>3, DialogRecs DEF Loading
  <2> QED
    BY <2>6, <2>10, <2>11, <2>12 DEF Agree
<1> QED
  BY <1>2, <1>3 DEF Init

\* Every step keeps the agreement, while requests do not overlap and no call
\* fails: what disturbed it is not forgotten.
LEMMA NextAgree == ASSUME PublicLinkAssumption, Typed, AgreeKept, [Next]_vars PROVE AgreeKept'
<1>1. CASE Dialog
  <2>1. UNCHANGED failures
    BY <1>1 DEF Dialog, Save, Toggle, UpdateLink, ResetPassword, RevertChanges, EnableWithPassword,
                SetUpdatePassword
  <2>2. overlapped => overlapped'
    BY <1>1 DEF Dialog, Save, Toggle, UpdateLink, ResetPassword, RevertChanges, EnableWithPassword,
                SetUpdatePassword, Sends
  <2> SUFFICES ASSUME Undisturbed' PROVE Agree'
    BY DEF AgreeKept
  <2>3. Agree /\ ~overlapped'
    BY <2>1, <2>2 DEF AgreeKept, Undisturbed
  <2> QED
    BY <1>1, <2>3, DialogAgree, EditAgree DEF Dialog
<1>2. CASE Requests
  <2>1. ASSUME NEW i \in DOMAIN reqs, Handler(i), Agree PROVE Agree'
    BY <2>1, WorkspaceAgree, UserAgree, LoadAgree, DropAgree, RenewAgree, StoreAgree, ReloadAgree,
       DeleteAgree DEF Handler
  <2>2. ASSUME NEW i \in DOMAIN reqs, Handler(i) PROVE UNCHANGED <<overlapped, failures>>
    BY <2>2 DEF Handler, GetOrCreateWorkspace, GetOrCreateHiddenUser, LoadHashDocument,
                DeleteHiddenUser, RenewHiddenUser, UpdateACLs, StoreHashDocument, Reload,
                DeleteWorkspace, DeleteHashDocument, Internal
  <2>3. ASSUME NEW i \in DOMAIN reqs, Answer(i) PROVE UNCHANGED <<overlapped, failures>>
    BY <2>3 DEF Answer
  <2>4. UNCHANGED <<overlapped, failures>> /\ (Agree => Agree')
    BY <1>2, <2>1, <2>2, <2>3, AnswerAgree DEF Requests
  <2> QED
    BY <2>4 DEF AgreeKept, Undisturbed
<1>3. ASSUME NEW i \in DOMAIN reqs, CallFails(i) PROVE ~Undisturbed'
  <2>1. failures \in Nat /\ failures' = failures + 1
    BY <1>3 DEF CallFails, Typed, PublicLinkAssumption
  <2> QED
    BY <2>1 DEF Undisturbed
<1>4. CASE UNCHANGED vars
  BY <1>4 DEF vars, client, stores, AgreeKept, Undisturbed, Agree, Active, NoneShown, LinkShown,
              Loading
<1> QED
  BY <1>1, <1>2, <1>3, <1>4 DEF Next, AgreeKept

\* Answered one at a time and without a failure, requests leave stores that agree
\* with each other and with the dialog: StoresAgree.
THEOREM StoresAgreeAlways == Spec => []StoresAgree
<1>1. Init => Typed /\ AgreeKept
  BY InitTyped, InitAgree, PublicLinkAssumption DEF AgreeKept
<1>2. Typed /\ AgreeKept /\ [Next]_vars => Typed' /\ AgreeKept'
  BY NextTyped, NextAgree, PublicLinkAssumption
<1>3. Typed /\ AgreeKept => StoresAgree
  <2> SUFFICES ASSUME Typed, Undisturbed, Active = {}, AgreeKept PROVE
        LET doc == docs[link.uuid] IN
        /\ workspaces = {link.uuid} \ {0}
        /\ \A l \in Id : docs[l] # NoDoc <=> l \in workspaces
        /\ \A u \in Id : users[u] # "none" => link.uuid # 0 /\ doc.login = u
        /\ link.uuid # 0 => /\ link.login = doc.login /\ users[doc.login] # "none"
                            /\ doc.protected <=> users[doc.login] # "default"
                            /\ ~dirty => link.required = doc.protected
    BY DEF StoresAgree
  <2>1. CASE NoneShown
    BY <2>1 DEF NoneShown, NothingBut
  <2>2. CASE LinkShown
    <3>1. link.uuid \in Id /\ link.uuid # 0 /\ StoredAt(link.uuid, users, docs)
      BY <2>2, Ids, PublicLinkAssumption DEF LinkShown, StoredAt
    <3> QED
      BY <2>2, <3>1 DEF LinkShown, StoredAt, Opens
  <2> QED
    BY <2>1, <2>2 DEF AgreeKept, Agree
<1> QED
  BY <1>1, <1>2, <1>3, PTL DEF Spec

=============================================================================
