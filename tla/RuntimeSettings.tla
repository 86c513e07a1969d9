--------------------------- MODULE RuntimeSettings --------------------------
(***************************************************************************)
(* The settings (internal/web/settings.go) and the list of the configured  *)
(* proxy pool (internal/outbound/proxy.go), which the administrator's      *)
(* requests change together: PUT settings, POST and DELETE proxy-pool      *)
(* (internal/web/proxy_pool.go).                                           *)
(*                                                                         *)
(* No lock is held across a request. It reads the pool's list and replaces *)
(* the pool, reads the settings and then the list again, truncates and     *)
(* writes the file, sets the memory: each is a step of its own here, and   *)
(* two requests interleave between any two. Two writes of the file that    *)
(* overlap may leave a mixture of both.                                    *)
(*                                                                         *)
(* Settings are the list of proxies and the rest, of which only the list   *)
(* of model mappings is told apart: the product's, a custom one, none.     *)
(***************************************************************************)
EXTENDS Naturals, Sequences, SequencesExt, Selection, StoredFile

CONSTANTS
    Proxies,      \* URLs of proxies, in every spelling in use
    Usable,       \* those that New accepts
    Plain,        \* a URL without blanks and slashes at its end
    Blank,        \* the empty string in a list of URLs
    Puts,         \* the settings the console sends
    Posts,        \* the lists of URLs that are added at once
    Admins,       \* requests at the same time
    NoPool,       \* no pool is configured (a nil *Pool)
    MaxRequests,  \* bound: requests
    MaxRestarts   \* bound: restarts

ASSUME SettingsAssumption ==
    /\ Usable \subseteq Proxies /\ Blank \notin Proxies
    /\ Plain \in [Proxies -> Proxies]
    /\ Puts \subseteq [proxies : Seq(Proxies \cup {Blank}), rest : {"product", "custom", "none"}]
    /\ Posts \subseteq Seq(Proxies) \ {<<>>}
    /\ NoPool \notin Seq(Proxies)
    /\ MaxRequests \in Nat /\ MaxRestarts \in Nat

VARIABLES
    settings,      \* settingsStore.v
    settingsFile,
    pool,          \* the URLs of the configured pool, or NoPool
    admin,         \* per request: its step and its locals
    requests,      \* requests begun
    restarts

settingsVars == <<settings, settingsFile, pool, admin, requests, restarts>>

Rests == {"product", "custom", "none"}

Defaults == [proxies |-> <<>>, rest |-> "product"]

\* A record of a request: what it still has to add, the list it has read or the settings it
\* will save, whether another write of the file fell into its own, and, as ghosts, whether
\* it has been alone and what it found at its start.
NoRequest ==
    [at |-> "idle", kind |-> "none", urls |-> <<>>, items |-> <<>>, v |-> Defaults,
     mixed |-> FALSE, alone |-> TRUE, asked |-> <<>>, found |-> <<>>, rest |-> "product"]

Listed(p) == IF p = NoPool THEN <<>> ELSE p

\* A defect: NewPool keeps what it has seen.
NewPoolOf_Twice(raw) == SelectSeq(raw, LAMBDA u : u # Blank)

\* NewPool leaves out blanks and what it has seen.
Added(p, u) == IF u = Blank \/ Contains(p, u) THEN p ELSE Append(p, u)

\* The entries NewPool makes of a list of URLs that New accepts.
NewPoolOf(raw) ==
    LET made[n \in 0..Len(raw)] == IF n = 0 THEN <<>> ELSE Added(made[n - 1], raw[n])
    IN  made[Len(raw)]

-----------------------------------------------------------------------------

SettingsInit ==
    /\ settings = Defaults /\ settingsFile = Defaults
    /\ pool = NoPool
    /\ admin = [s \in Admins |-> NoRequest]
    /\ requests = 0 /\ restarts = 0

Open(s) == admin[s].at \notin {"idle", "done"}

\* A request begins; from here on nobody under way is alone.
BeginRequest(s, kind, step, asked, v) ==
    /\ ~Open(s)
    /\ requests < MaxRequests /\ requests' = requests + 1
    /\ LET alone == \A t \in Admins : ~Open(t) IN
        admin' = [t \in Admins |->
            IF t = s THEN [NoRequest EXCEPT !.at = step, !.kind = kind, !.urls = asked,
                              !.asked = asked, !.v = v, !.alone = alone,
                              !.found = Listed(pool), !.rest = settings.rest]
            ELSE IF Open(t) THEN [admin[t] EXCEPT !.alone = FALSE] ELSE admin[t]]

At(s, step) == admin[s].at = step

\* The request ends, and with it its locals; "done" means without an error.
Ended(at) == [NoRequest EXCEPT !.at = at]

Goto(s, step) == admin' = [admin EXCEPT ![s].at = step]

End(s, at) == admin' = [admin EXCEPT ![s] = Ended(at)]

\* PUT settings; what validateSettings refuses changes nothing.
PutSettings(s) ==
    /\ \E v \in Puts : /\ ToSet(v.proxies) \subseteq Usable \cup {Blank}
                       /\ BeginRequest(s, "put", "open", v.proxies, v)
    /\ UNCHANGED <<settings, settingsFile, pool, restarts>>

\* POST proxy-pool.
PostProxies(s) ==
    /\ \E urls \in Posts : BeginRequest(s, "post", "add", urls, Defaults)
    /\ UNCHANGED <<settings, settingsFile, pool, restarts>>

\* DELETE proxy-pool, of one URL or, without one, of all.
DeleteProxy(s) ==
    /\ \/ \E u \in Proxies : BeginRequest(s, "delete", "remove", <<u>>, Defaults)
       \/ BeginRequest(s, "clear", "clear", <<>>, Defaults)
    /\ UNCHANGED <<settings, settingsFile, pool, restarts>>

-----------------------------------------------------------------------------
(* AddProxy, RemoveProxy, ConfigurePool. *)

\* AddProxy reads the list; without a pool there is none. NewPool refuses a bad URL, and
\* with it the rest of the request.
AddReads(s) ==
    /\ At(s, "add")
    /\ LET r == admin[s]
           u == Head(r.urls)
       IN  admin' = [admin EXCEPT ![s] =
                IF u \in Usable
                THEN [r EXCEPT !.at = "swap", !.urls = Tail(r.urls),
                               !.items = Append(Listed(pool), u)]
                ELSE Ended("idle")]
    /\ UNCHANGED <<settings, settingsFile, pool, requests, restarts>>

\* RemoveProxy compares what is left of the URLs without slashes at the end.
Kept(list, u) == Selected(list, {i \in DOMAIN list : Plain[list[i]] # Plain[u]})

\* RemoveProxy reads the list; without a pool it is content, and a URL that is not in the
\* list is an error.
RemoveReads(s) ==
    /\ At(s, "remove")
    /\ LET r == admin[s]
           items == Kept(Listed(pool), Head(r.urls))
       IN  admin' = [admin EXCEPT ![s] =
                IF pool # NoPool /\ items = pool THEN Ended("idle")
                ELSE [r EXCEPT !.at = IF pool = NoPool THEN "get" ELSE "swap",
                               !.urls = <<>>, !.items = items]]
    /\ UNCHANGED <<settings, settingsFile, pool, requests, restarts>>

\* ConfigurePool(nil) configures a pool without entries.
ClearPool(s) ==
    /\ At(s, "clear")
    /\ pool' = <<>>
    /\ Goto(s, "get")
    /\ UNCHANGED <<settings, settingsFile, requests, restarts>>

\* A pool made of the list that has been read replaces whatever is configured by now.
SwapPool(s) ==
    /\ At(s, "swap")
    /\ pool' = NewPoolOf(admin[s].items)
    /\ admin' = [admin EXCEPT ![s].at = "get", ![s].items = <<>>]
    /\ UNCHANGED <<settings, settingsFile, requests, restarts>>

-----------------------------------------------------------------------------
(* persistProxyPool, and save. *)

\* settings.get() gives everything but the list.
GetSettings(s) ==
    /\ At(s, "get")
    /\ admin' = [admin EXCEPT ![s].at = "list", ![s].v = settings]
    /\ UNCHANGED <<settings, settingsFile, pool, requests, restarts>>

\* A defect: the list of the settings that have been read is kept.
GetList_Skipped(s) ==
    /\ At(s, "list")
    /\ Goto(s, "open")
    /\ UNCHANGED <<settings, settingsFile, pool, requests, restarts>>

\* ProxyPoolStatus gives the list.
GetList(s) ==
    /\ At(s, "list")
    /\ admin' = [admin EXCEPT ![s].at = "open", ![s].v.proxies = Listed(pool)]
    /\ UNCHANGED <<settings, settingsFile, pool, requests, restarts>>

\* The file cannot be opened; the request ends with an error.
OpenFails(s) ==
    /\ At(s, "open")
    /\ End(s, "idle")
    /\ UNCHANGED <<settings, settingsFile, pool, requests, restarts>>

Truncate(s) ==
    /\ At(s, "open")
    /\ settingsFile' = Torn
    /\ admin' = [admin EXCEPT ![s].at = "write", ![s].mixed = FALSE]
    /\ UNCHANGED <<settings, pool, requests, restarts>>

\* The write of s is over, and r is what is left of it; whoever else has the file open
\* writes over it.
WriteEnds(s, r) ==
    admin' = [t \in Admins |->
        IF t = s THEN r
        ELSE IF At(t, "write") THEN [admin[t] EXCEPT !.mixed = TRUE] ELSE admin[t]]

\* The shorter of two texts, written over the longer one, leaves the end of that.
WriteFile(s) ==
    /\ At(s, "write")
    /\ \/ settingsFile' = admin[s].v
       \/ admin[s].mixed /\ settingsFile # admin[s].v /\ settingsFile' = Torn
    /\ WriteEnds(s, [admin[s] EXCEPT !.at = "memory", !.mixed = FALSE])
    /\ UNCHANGED <<settings, pool, requests, restarts>>

WriteFails(s) ==
    /\ At(s, "write")
    /\ settingsFile' \in AfterError(settingsFile, admin[s].v)
    /\ WriteEnds(s, Ended("idle"))
    /\ UNCHANGED <<settings, pool, requests, restarts>>

\* save sets the memory; PUT has still to configure the pool, POST goes on to the next URL.
SetMemory(s) ==
    /\ At(s, "memory")
    /\ settings' = admin[s].v
    /\ CASE admin[s].kind = "put"                            -> Goto(s, "configure")
         [] admin[s].kind # "put" /\ admin[s].urls # <<>>     -> Goto(s, "add")
         [] admin[s].kind # "put" /\ admin[s].urls = <<>>     -> End(s, "done")
    /\ UNCHANGED <<settingsFile, pool, requests, restarts>>

ConfigurePool(s) ==
    /\ At(s, "configure")
    /\ pool' = NewPoolOf(admin[s].v.proxies)
    /\ End(s, "done")
    /\ UNCHANGED <<settings, settingsFile, requests, restarts>>

-----------------------------------------------------------------------------

\* A list of model mappings without a row is replaced by the product's.
Seeded(v) == IF v.rest = "none" THEN [v EXCEPT !.rest = "product"] ELSE v

\* The process dies and starts again: openSettingsStore, which saves what it has replaced
\* and drops the error; then main configures the pool, if a URL is listed.
SettingsRestart ==
    /\ restarts < MaxRestarts /\ restarts' = restarts + 1
    /\ LET v == Loaded(settingsFile, Defaults) IN
        /\ settings' = Seeded(v)
        /\ IF Seeded(v) = v THEN settingsFile' = settingsFile
           ELSE settingsFile' \in AfterWrite(settingsFile, Seeded(v))
        /\ pool' = IF NewPoolOf(v.proxies) = <<>> THEN NoPool ELSE NewPoolOf(v.proxies)
    /\ admin' = [s \in Admins |-> NoRequest]
    /\ UNCHANGED requests

SettingsNext ==
    \/ \E s \in Admins :
        \/ PutSettings(s) \/ PostProxies(s) \/ DeleteProxy(s)
        \/ AddReads(s) \/ RemoveReads(s) \/ ClearPool(s) \/ SwapPool(s)
        \/ GetSettings(s) \/ GetList(s)
        \/ OpenFails(s) \/ Truncate(s) \/ WriteFile(s) \/ WriteFails(s) \/ SetMemory(s)
        \/ ConfigurePool(s)
    \/ SettingsRestart

SettingsSpec == SettingsInit /\ [][SettingsNext]_settingsVars

-----------------------------------------------------------------------------

Urls == Proxies \cup {Blank}
Values == [proxies : Seq(Urls), rest : Rests]
SettingsSteps ==
    {"idle", "add", "remove", "clear", "swap", "get", "list", "open", "write", "memory",
     "configure", "done"}

\* Settings, file, pool and requests are well typed; the pool lists usable URLs only, each
\* once.
SettingsTypeOK ==
    /\ settings \in Values
    /\ settingsFile = Torn \/ settingsFile \in Values
    /\ Listed(pool) \in Seq(Usable) /\ IsInjective(Listed(pool))
    /\ \A s \in Admins :
        /\ admin[s].at \in SettingsSteps
        /\ admin[s].kind \in {"none", "put", "post", "delete", "clear"}
        /\ admin[s].v \in Values
        /\ {admin[s].urls, admin[s].items, admin[s].asked, admin[s].found} \subseteq Seq(Urls)
        /\ admin[s].mixed \in BOOLEAN /\ admin[s].alone \in BOOLEAN
        /\ admin[s].rest \in Rests
    /\ requests \in 0..MaxRequests /\ restarts \in 0..MaxRestarts

\* The list a request is meant to leave behind.
Meant(r) ==
    CASE r.kind = "put"    -> NewPoolOf(r.asked)
      [] r.kind = "post"   -> NewPoolOf(r.found \o r.asked)
      [] r.kind = "delete" -> Kept(r.found, r.asked[1])
      [] r.kind = "clear"  -> <<>>

\* A request that has been alone and succeeded leaves the pool, the memory and the file in
\* agreement, with exactly what it was to change changed, whatever races, failed saves,
\* torn files and restarts came before it: nothing that went wrong lasts (adminSettings,
\* proxyPool, persistProxyPool, save).
LoneRequestWorks ==
    [][\A s \in Admins :
        admin'[s].at = "done" /\ admin[s].at # "done" /\ admin[s].alone =>
            /\ Listed(pool') = Meant(admin[s])
            /\ settingsFile' = settings'
            /\ NewPoolOf(settings'.proxies) = Listed(pool')
            /\ settings'.rest = IF admin[s].kind = "put" THEN admin[s].v.rest
                                ELSE admin[s].rest]_settingsVars
=============================================================================
