---------------------------- MODULE BrowserSession ----------------------------
(***************************************************************************)
(* The bounded browser connector: a session with an action budget and a    *)
(* bounded history, a backend that owns the real history, a cached page on *)
(* which targets are resolved, and the record of completed mutations that  *)
(* keeps a resumed agent from repeating them.                              *)
(***************************************************************************)
EXTENDS Integers, Sequences, FiniteSets

CONSTANTS
    Site,           \* url -> what the site serves there (see the MC module)
    Element,        \* element -> its attributes
    BlockedHosts,   \* loopback, private and metadata hosts
    BaseHosts,      \* the allowlist the connector was built with; may be empty
    AllowLists,     \* the allowlists a session may be opened with
    Budgets,        \* the action budgets a session may be opened with
    RedirectBounds, \* the redirect bounds a session may be opened with
    Texts,          \* what is typed or selected; "secret" is credential material
    DefaultBudget, DefaultRedirects, MaxNavigations,
    MaxSessions, MaxEpoch       \* bounds of the model

ASSUME BrowserAssumption == /\ DefaultBudget \in Nat /\ Budgets \subseteq Nat
                            /\ DefaultRedirects \in Nat /\ RedirectBounds \subseteq Nat

VARIABLES
    session,        \* the connector's session, or NoSession
    page,           \* the cached observation, or NoPage
    site,           \* the backend: its history, index, page identity and fields
    completed,      \* keys of the completed mutations
    clicks,         \* ghost: the mutations performed, with the page they hit
    saved,          \* the completed keys of the last checkpoint
    opened          \* sessions opened so far

browserVars == <<session, page, site, completed, clicks, saved, opened>>

Urls == DOMAIN Site
Elements == DOMAIN Element
NoSession == [state |-> "none"]
NoPage == [url |-> "none", epoch |-> -1]
\* "refused" is a ghost: the session did not accept the backend's last landing.
FirstSite == [history |-> <<>>, index |-> 0, epoch |-> 0, refused |-> FALSE,
              fields |-> [u \in Urls |-> [e \in Site[u].elements |-> "empty"]]]

NewSession(hosts, budget, redirects) ==
    [state |-> "open", hosts |-> hosts, history |-> <<>>, index |-> 0, epoch |-> 0,
     used |-> 0, limit |-> budget, redirects |-> redirects]

BrowserInit == /\ session = NoSession /\ page = NoPage /\ site = FirstSite
               /\ completed = {} /\ clicks = <<>> /\ saved = {} /\ opened = 0

-----------------------------------------------------------------------------
\* Navigation policy

HostsValid(listed) == listed # {} /\ listed \cap BlockedHosts = {}

UrlAllowed(u, hosts) ==
    /\ Site[u].scheme = "https" /\ ~Site[u].userinfo /\ Site[u].port \in {0, 443}
    /\ Site[u].host \notin BlockedHosts /\ Site[u].host \in hosts

\* Every hop is validated like a navigation, source and destination.
RedirectAllowed(from, to, hosts, depth) ==
    depth < DefaultRedirects /\ UrlAllowed(from, hosts) /\ UrlAllowed(to, hosts)

\* The page a url leads to and the redirects taken, if every hop is allowed.
Landings(u, hosts) ==
    LET hop[d \in 0 .. DefaultRedirects] ==
            IF d = 0 THEN u ELSE Site[hop[d - 1]].redirect
        open(d) == \A i \in 0 .. d - 1 : Site[hop[i]].redirect # hop[i]
    IN {[url |-> hop[d], depth |-> d] : d \in
           {d \in 0 .. DefaultRedirects :
               /\ open(d) /\ Site[hop[d]].redirect = hop[d]
               /\ UrlAllowed(u, hosts)
               /\ \A i \in 0 .. d - 1 : RedirectAllowed(hop[i], hop[i + 1], hosts, i)}}

-----------------------------------------------------------------------------
\* The backend

SitePage(b) == IF b.index = 0 THEN NoPage
               ELSE [url |-> b.history[b.index].url, epoch |-> b.epoch]

SiteVisit(b, record, refused) ==
    LET kept == Append(SubSeq(b.history, 1, b.index), record)
    IN [b EXCEPT !.history = kept, !.index = Len(kept), !.epoch = @ + 1, !.refused = refused]

SiteMove(b, step) == [b EXCEPT !.index = @ + step, !.epoch = @ + 1, !.refused = FALSE]

\* The element a target names on the page the backend is on.
LiveElement(b, target) ==
    b.index > 0 /\ target.element \in Site[b.history[b.index].url].elements

SiteSetField(b, target, text) ==
    [b EXCEPT !.fields[b.history[b.index].url][target.element] = text]

-----------------------------------------------------------------------------
\* The session

\* Sessions refuse a deeper redirect than they allow; the history drops its
\* oldest entries.
Noted(s, record) ==
    LET grown == Append(SubSeq(s.history, 1, s.index), record)
        extra == IF Len(grown) > MaxNavigations THEN Len(grown) - MaxNavigations ELSE 0
        kept == SubSeq(grown, extra + 1, Len(grown))
    IN [s EXCEPT !.history = kept, !.index = Len(kept), !.epoch = @ + 1]

\* The session's own index follows if it can; the backend's is authoritative.
Moved(s, step) ==
    LET to == s.index + step
    IN IF to \in 1 .. Len(s.history)
       THEN [s EXCEPT !.index = to, !.epoch = @ + 2] ELSE [s EXCEPT !.epoch = @ + 1]

Reloaded(s) == [s EXCEPT !.epoch = @ + 1]

\* An operation on a missing, closed or suspended session opens a new one on
\* the connector's own allowlist.
Ensured == IF session.state = "open" THEN {session}
           ELSE {s \in {NewSession(BaseHosts, DefaultBudget, DefaultRedirects)} :
                   HostsValid(BaseHosts) /\ opened < MaxSessions}

Charged == {[s EXCEPT !.used = @ + 1] : s \in {s \in Ensured : s.used < s.limit}}

\* What an operation does to the session it is charged to.
Charge(s) == /\ session' = s
             /\ opened' = IF session.state = "open" THEN opened ELSE opened + 1

SessionOpen(hosts, budget, redirects) ==
    /\ opened < MaxSessions /\ HostsValid(hosts) /\ budget > 0
    /\ session' = NewSession(hosts, budget, redirects)
    /\ opened' = opened + 1
    /\ page' = NoPage
    /\ UNCHANGED <<site, completed, clicks, saved>>

\* The session's owner closes, suspends or resumes it.
SessionTurn ==
    /\ \/ session.state # "none" /\ session' = [session EXCEPT !.state = "closed"]
       \/ session.state = "open" /\ session' = [session EXCEPT !.state = "suspended"]
       \/ session.state = "suspended" /\ session' = [session EXCEPT !.state = "open"]
    /\ UNCHANGED <<page, site, completed, clicks, saved, opened>>

-----------------------------------------------------------------------------
\* Navigation.  The action is charged first; a refused url costs it.

BrowserNavigate(u) ==
    \E s \in Charged :
        IF Landings(u, s.hosts) = {}
        THEN Charge(s) /\ UNCHANGED <<page, site, completed, clicks, saved>>
        ELSE \E record \in Landings(u, s.hosts) :
                LET refused == record.depth > s.redirects
                    b == SiteVisit(site, record, refused)
                IN
                /\ site' = b
                /\ IF refused    \* by the session, which is asked only now
                   THEN Charge(s) /\ page' = page
                   ELSE Charge(Noted(s, record)) /\ page' = SitePage(b)
                /\ UNCHANGED <<completed, clicks, saved>>

BrowserMove(step) ==
    \E s \in Charged :
        IF site.index + step \notin 1 .. Len(site.history)
        THEN Charge(s) /\ UNCHANGED <<page, site, completed, clicks, saved>>
        ELSE LET b == SiteMove(site, step) IN
             /\ site' = b /\ page' = SitePage(b)
             /\ Charge(Moved(s, step))
             /\ UNCHANGED <<completed, clicks, saved>>

BrowserReload ==
    \E s \in Charged :
        IF site.index = 0
        THEN Charge(s) /\ UNCHANGED <<page, site, completed, clicks, saved>>
        ELSE LET b == SiteMove(site, 0) IN
             /\ site' = b /\ page' = SitePage(b)
             /\ Charge(Reloaded(s))
             /\ UNCHANGED <<completed, clicks, saved>>

BrowserObserve ==
    \E s \in Charged :
        /\ Charge(s)
        /\ page' = IF site.index = 0 THEN page ELSE SitePage(site)
        /\ UNCHANGED <<site, completed, clicks, saved>>

\* The page targets are resolved on: the cached one, else what the backend shows.
CurrentPage == IF page = NoPage THEN SitePage(site) ELSE page

-----------------------------------------------------------------------------
\* Targets

\* A query must single out one enabled element of the page.
Resolved(shown, query) ==
    {[element |-> e, epoch |-> shown.epoch] : e \in
        {e \in Site[shown.url].elements :
            /\ e \in query /\ Element[e].enabled
            /\ \A f \in Site[shown.url].elements \ {e} :
                    ~(f \in query /\ Element[f].enabled)}}

BugBelongsTo(target, shown) ==
    shown # NoPage /\ target.element \in Site[shown.url].elements

BelongsTo(target, shown) ==
    /\ shown # NoPage
    /\ target.epoch = shown.epoch /\ target.element \in Site[shown.url].elements

BrowserFind ==
    \E s \in Charged :
        /\ Charge(s) /\ page' = CurrentPage
        /\ UNCHANGED <<site, completed, clicks, saved>>

\* Targets a caller can name: one it holds, of any page identity, or a query.
Targets(queries) ==
    [element : Elements, epoch : 0 .. site.epoch] \cup
    IF CurrentPage = NoPage THEN {}
    ELSE UNION {Resolved(CurrentPage, q) : q \in queries}

CredentialField(e) == Element[e].credential
Consequential(e) == Element[e].consequential
TextAllowed(text) == text # "secret"

NoTarget == [element |-> "none", epoch |-> -1]
MutationKey(op, target, text) ==
    [op |-> op, url |-> CurrentPage.url, target |-> target, text |-> text]

BugPermitted(target, approved, key) ==
    /\ BelongsTo(target, CurrentPage) /\ ~CredentialField(target.element)
    /\ Consequential(target.element) => approved

\* What every mutation checks, in this order, before it touches the backend.
Permitted(target, approved, key) ==
    /\ BelongsTo(target, CurrentPage)
    /\ ~CredentialField(target.element)
    /\ Consequential(target.element) => approved
    /\ key \notin completed

Performed(key, b) ==
    Append(clicks, [key |-> key, on |-> SitePage(b), refused |-> b.refused])

\* Refused before the backend: only the charge is left (and the cached page).
Refuse(s) == /\ Charge(s) /\ page' = CurrentPage
             /\ UNCHANGED <<site, completed, clicks, saved>>

BrowserClick(target, approved) ==
    LET key == MutationKey("click", target, "none") IN
    \E s \in Charged :
        IF ~(Permitted(target, approved, key) /\ LiveElement(site, target)) THEN Refuse(s)
        ELSE LET here == site.history[site.index].url
                 link == Element[target.element].link
             IN IF link \in {"none", here}
                THEN /\ clicks' = Performed(key, site) /\ completed' = completed \cup {key}
                     /\ page' = SitePage(site) /\ Charge(Reloaded(s))
                     /\ UNCHANGED <<site, saved>>
                ELSE IF Landings(link, s.hosts) = {} THEN Refuse(s)
                ELSE \E record \in Landings(link, s.hosts) :
                        LET refused == record.depth > s.redirects
                            b == SiteVisit(site, record, refused)
                        IN
                        /\ clicks' = Performed(key, site) /\ site' = b
                        /\ IF refused
                           THEN /\ Charge(s) /\ page' = CurrentPage
                                /\ completed' = completed
                           ELSE /\ Charge(Reloaded(Noted(s, record)))
                                /\ page' = SitePage(b)
                                /\ completed' = completed \cup {key}
                        /\ saved' = saved

\* Typing into a field, or selecting one of its options.
Fill(op, target, text, allowed, approved) ==
    LET key == MutationKey(op, target, text) IN
    \E s \in Charged :
        IF ~(Permitted(target, approved, key) /\ allowed /\ LiveElement(site, target))
        THEN Refuse(s)
        ELSE LET b == SiteSetField(site, target, text) IN
             /\ site' = b /\ page' = SitePage(b)
             /\ clicks' = Performed(key, site) /\ completed' = completed \cup {key}
             /\ Charge(Reloaded(s))
             /\ saved' = saved

BrowserType(target, text, approved) ==
    Fill("type", target, text, TextAllowed(text), approved)

BrowserSelect(target, text, approved) ==
    LET options == Element[target.element].options
    IN Fill("select", target, text, options = {} \/ text \in options, approved)

\* A download is keyed by its url, not by a page; it needs no approval here.
BrowserDownload(u) ==
    LET key == [op |-> "download", url |-> u, target |-> NoTarget, text |-> "none"] IN
    \E s \in Charged :
        IF ~(UrlAllowed(u, s.hosts) /\ key \notin completed /\ Site[u].download)
        THEN Charge(s) /\ UNCHANGED <<page, site, completed, clicks, saved>>
        ELSE /\ clicks' = Performed(key, site) /\ completed' = completed \cup {key}
             /\ Charge(s) /\ UNCHANGED <<page, site, saved>>

-----------------------------------------------------------------------------
\* The caller checkpoints the completed keys; a new process starts from them,
\* with a fresh backend and no session.
BrowserCheckpoint == /\ saved # completed /\ saved' = completed
                     /\ UNCHANGED <<session, page, site, completed, clicks, opened>>

BrowserRestart == /\ opened < MaxSessions /\ opened' = opened + 1
                  /\ session' = NoSession /\ page' = NoPage /\ site' = FirstSite
                  /\ completed' = saved /\ clicks' = <<>>
                  /\ UNCHANGED saved

BrowserNext ==
    \/ \E hosts \in AllowLists, budget \in Budgets, r \in RedirectBounds :
            SessionOpen(hosts, budget, r)
    \/ SessionTurn
    \/ /\ site.epoch < MaxEpoch
       /\ \/ \E u \in Urls : BrowserNavigate(u)
          \/ \E step \in {-1, 1} : BrowserMove(step)
          \/ BrowserReload
          \/ \E target \in Targets(SUBSET Elements), approved \in BOOLEAN :
                BrowserClick(target, approved)
    \/ BrowserObserve
    \/ BrowserFind
    \/ \E target \in Targets(SUBSET Elements), text \in Texts, approved \in BOOLEAN :
            BrowserType(target, text, approved) \/ BrowserSelect(target, text, approved)
    \/ \E u \in Urls : BrowserDownload(u)
    \/ BrowserCheckpoint
    \/ BrowserRestart

BrowserSpec == BrowserInit /\ [][BrowserNext]_browserVars

-----------------------------------------------------------------------------
\* What a mutation did, it did on the page, in the epoch, that its target names,
\* whatever navigated, reloaded or was restored in between: the cached page the
\* check is made against is the backend's.  The one exception is a page on which
\* the backend landed over more redirects than the session allows.
ActsOnThePageItSaw ==
    \A i \in DOMAIN clicks :
        \/ clicks[i].key.op = "download" \/ clicks[i].refused
        \/ clicks[i].key.target.epoch = clicks[i].on.epoch

\* What ElementTarget (models.py) promises, without the exception: "using it after
\* the page changed is a stale target and fails closed".  The session refuses a
\* landing after the backend has made it and the connector then keeps the page
\* of before, so targets of that page are still taken for current.
StaleTargetsFailClosed ==
    \A i \in DOMAIN clicks :
        clicks[i].key.op # "download" => clicks[i].key.target.epoch = clicks[i].on.epoch

\* A session stays on the hosts it was opened for: the page it shows was
\* reached under an allowlist some session had, never on a blocked host,
\* however it got there - navigation, link, redirect, history or reload.
PagesAreAllowed ==
    page # NoPage => /\ Site[page.url].host \notin BlockedHosts
                     /\ Site[page.url].scheme = "https"
=============================================================================
