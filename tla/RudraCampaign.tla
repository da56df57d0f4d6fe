--------------------------- MODULE RudraCampaign ---------------------------
(***************************************************************************)
(* A campaign of Rudra's crawler (crawl/src/bin/rudra-runner.rs): the      *)
(* index of crates.io and the crates are downloaded into a cache directory *)
(* by a pool of threads that share one delay, and then `cargo rudra` runs  *)
(* in every crate, one process of Rudra for each target.  The cache stays  *)
(* from one campaign to the next.                                          *)
(*                                                                         *)
(* A file of the cache is a tarball, and its content what was unpacked     *)
(* from it.  Both are only known to exist; how much of them is there is    *)
(* what the crawler does not look at.                                      *)
(***************************************************************************)
EXTENDS Naturals, Sequences, FiniteSets

CONSTANTS
  Crate,
  Index,         \* db-dump, the list of all crates
  Targets,       \* the library and the binaries of a crate, as cargo-rudra sorts them
  NumThreads,
  REQUIRED_DELAY,
  MaxCampaigns,  \* campaigns with one cache directory (bound)
  MaxReports,    \* reports of one target (bound)
  Nobody

Item == Crate \union {Index}

ASSUME RudraCampaignAssumption ==
  /\ Index \notin Crate /\ Nobody \notin Item
  /\ NumThreads \in Nat \ {0} /\ REQUIRED_DELAY \in Nat
  /\ Len(Targets) \in Nat \ {0}    \* every package has a target
  /\ MaxCampaigns \in Nat /\ MaxReports \in Nat

VARIABLES
  campaign, phase,
  file,    \* tarballs: "none", "cut", "whole", or an answer that is none ("wrong")
  content, \* what was unpacked: "none", "part" or "whole"
  listed,  \* crates in the index that was read
  at,      \* where the work on an item is
  holder,  \* of the lock of LAST_DOWNLOAD
  since,   \* time since LAST_DOWNLOAD, up to REQUIRED_DELAY; above it when unset
  wait,    \* time an item still sleeps
  target, found, \* of the Rudra process of a crate: its target and its reports
  orphans, \* Rudra processes whose cargo was killed
  reports, \* report files of the campaign
  lastGrant, \* history: time since a download was let through
  cut,     \* history: campaign that first failed on an item, 0 if none did
  ended    \* history: Rudra processes of the campaign that ended, and their reports

campaignVars ==
  <<campaign, phase, file, content, listed, at, holder, since, wait, target, found,
    orphans, reports, lastGrant, cut, ended>>
cache    == <<file, content>>
delay    == <<holder, since, wait, lastGrant>>
analysis == <<target, found, orphans, reports, ended>>

AtAll(place)    == [i \in Item |-> place]
Go(i, place)    == at' = [at EXCEPT ![i] = place]
Working         == {c \in Crate : at[c] \notin {"idle", "check", "fetched", "skipped", "ready", "done"}}
FreeThread      == Cardinality(Working) < NumThreads
NoReports       == [p \in Crate \X (1 .. Len(Targets)) |-> 0]

CampaignInit ==
  /\ campaign = 0 /\ phase = "idle"
  /\ file = AtAll("none") /\ content = AtAll("none")
  /\ listed = {}
  /\ at = AtAll("idle")
  /\ holder = Nobody /\ since = REQUIRED_DELAY + 1 /\ wait = AtAll(0)
  /\ target = [c \in Crate |-> 1] /\ found = [c \in Crate |-> 0]
  /\ orphans = {} /\ reports = NoReports
  /\ lastGrant = REQUIRED_DELAY
  /\ cut = AtAll(0) /\ ended = {}

(* main: a new process, and a new campaign directory: what is left of an   *)
(* older campaign goes on reporting to the directory of that one.          *)
Start ==
  /\ phase = "idle" /\ campaign < MaxCampaigns
  /\ campaign' = campaign + 1 /\ phase' = "index"
  /\ at' = [AtAll("idle") EXCEPT ![Index] = "check"]
  /\ listed' = {}
  /\ holder' = Nobody /\ since' = REQUIRED_DELAY + 1 /\ wait' = AtAll(0)
  /\ lastGrant' = REQUIRED_DELAY
  /\ reports' = NoReports /\ ended' = {} /\ orphans' = {}
  /\ UNCHANGED <<cache, target, found, cut>>

(* The process ends, by itself or not.                                     *)
End ==
  /\ phase' = "idle"
  /\ at' = AtAll("idle") /\ holder' = Nobody /\ wait' = AtAll(0)
  /\ UNCHANGED <<campaign, listed, since, lastGrant, reports, ended, target, found>>

FirstCut(items) == cut' = [i \in Item |-> IF i \in items /\ cut[i] = 0 THEN campaign ELSE cut[i]]

(* An error skips a crate; without an index there is no campaign.          *)
Fail(i) ==
  /\ FirstCut({i})
  /\ IF i = Index THEN End /\ UNCHANGED orphans
     ELSE Go(i, "skipped") /\ UNCHANGED <<campaign, phase, listed, delay, analysis>>

-----------------------------------------------------------------------------
(* fetch_latest_version, fetch_crate_info: what exists is not downloaded.  *)
Check(i) ==
  /\ at[i] = "check"
  /\ i \in Crate => FreeThread
  /\ Go(i, IF file[i] = "none" THEN "lock" ELSE IF i = Index THEN "list" ELSE "unpack")
  /\ UNCHANGED <<campaign, phase, cache, listed, delay, analysis, cut>>

(* Slip: the lock is given back before the sleep.                          *)
LockBriefly(i) ==
  /\ at[i] = "lock" /\ holder = Nobody
  /\ since' = IF since > REQUIRED_DELAY THEN 0 ELSE since
  /\ wait' = [wait EXCEPT ![i] = REQUIRED_DELAY - since']
  /\ Go(i, "sleep")
  /\ UNCHANGED <<campaign, phase, cache, listed, holder, lastGrant, analysis, cut>>

(* download: LAST_DOWNLOAD is set when it is looked at for the first time. *)
Lock(i) ==
  /\ at[i] = "lock" /\ holder = Nobody
  /\ holder' = i
  /\ since' = IF since > REQUIRED_DELAY THEN 0 ELSE since
  /\ wait' = [wait EXCEPT ![i] = REQUIRED_DELAY - since']
  /\ Go(i, "sleep")
  /\ UNCHANGED <<campaign, phase, cache, listed, lastGrant, analysis, cut>>

(* Slip: the lock is not given back.                                       *)
GrantForGood(i) ==
  /\ at[i] = "sleep" /\ wait[i] = 0
  /\ since' = 0 /\ lastGrant' = 0
  /\ Go(i, "create")
  /\ UNCHANGED <<campaign, phase, cache, listed, holder, wait, analysis, cut>>

Grant(i) ==
  /\ at[i] = "sleep" /\ wait[i] = 0
  /\ holder' = Nobody
  /\ since' = 0 /\ lastGrant' = 0
  /\ Go(i, "create")
  /\ UNCHANGED <<campaign, phase, cache, listed, wait, analysis, cut>>

Tick ==
  /\ phase # "idle"
  /\ since' = IF since < REQUIRED_DELAY THEN since + 1 ELSE since
  /\ lastGrant' = IF lastGrant < REQUIRED_DELAY THEN lastGrant + 1 ELSE lastGrant
  /\ wait' = [i \in Item |-> IF wait[i] > 0 THEN wait[i] - 1 ELSE 0]
  /\ UNCHANGED <<campaign, phase, cache, listed, at, holder, analysis, cut>>

Create(i) ==
  /\ at[i] = "create"
  /\ file' = [file EXCEPT ![i] = "cut"]
  /\ Go(i, "send")
  /\ UNCHANGED <<campaign, phase, content, listed, delay, analysis, cut>>

(* Whatever the server answers is copied, an error page like a tarball; an *)
(* error at the end, when the buffer is dropped, is not seen.              *)
Send(i) ==
  /\ at[i] = "send"
  /\ \E answer \in {"whole", "wrong", "cut"} : file' = [file EXCEPT ![i] = answer]
  /\ Go(i, "unpack")
  /\ UNCHANGED <<campaign, phase, content, listed, delay, analysis, cut>>

SendFails(i) ==
  /\ at[i] = "send"
  /\ Fail(i)
  /\ UNCHANGED cache

(* decompress: a directory that exists is taken for the content; that of   *)
(* an older index is removed.                                              *)
Unpack(i) ==
  /\ at[i] = "unpack"
  /\ IF i \in Crate /\ content[i] # "none"
     THEN Go(i, "fetched") /\ UNCHANGED content
     ELSE /\ Go(i, "unpacking")
          /\ \E made \in {"none", "part"} :
               /\ made = "part" => file[i] # "wrong"
               /\ content' = [content EXCEPT ![i] = made]
  /\ UNCHANGED <<campaign, phase, file, listed, delay, analysis, cut>>

Unpacked(i) ==
  /\ at[i] = "unpacking" /\ file[i] = "whole"
  /\ content' = [content EXCEPT ![i] = "whole"]
  /\ Go(i, IF i = Index THEN "list" ELSE "fetched")
  /\ UNCHANGED <<campaign, phase, file, listed, delay, analysis, cut>>

(* Slip: the result of decompress is dropped.                              *)
UnpackFailsUnseen(i) ==
  /\ at[i] = "unpacking"
  /\ Go(i, IF i = Index THEN "list" ELSE "fetched")
  /\ FirstCut({i})
  /\ UNCHANGED <<campaign, phase, cache, listed, delay, analysis>>

UnpackFails(i) ==
  /\ at[i] = "unpacking"
  /\ Fail(i)
  /\ UNCHANGED cache

(* The tables of the index: with some of it missing the program panics or  *)
(* finds fewer crates.                                                     *)
List ==
  /\ at[Index] = "list"
  /\ \/ /\ content[Index] = "whole" /\ listed' = Crate
     \/ /\ content[Index] = "part" /\ listed' \in SUBSET Crate
  /\ phase' = "fetch"
  /\ at' = [c \in Item |-> IF c \in listed' THEN "check" ELSE "done"]
  /\ UNCHANGED <<campaign, cache, delay, analysis, cut>>

ListFails ==
  /\ at[Index] = "list" /\ content[Index] # "whole"
  /\ End
  /\ UNCHANGED <<cache, orphans, cut>>

-----------------------------------------------------------------------------
(* All crates are fetched before the first is analysed; --select and -n    *)
(* choose among them.                                                      *)
Choose ==
  /\ phase = "fetch"
  /\ \A c \in listed : at[c] \in {"fetched", "skipped"}
  /\ \E chosen \in SUBSET {c \in listed : at[c] = "fetched"} :
       at' = [i \in Item |-> IF i \in chosen THEN "ready" ELSE "done"]
  /\ phase' = "analyse"
  /\ UNCHANGED <<campaign, cache, listed, delay, analysis, cut>>

StartRudra(c) ==
  /\ at[c] = "ready" /\ FreeThread
  /\ target' = [target EXCEPT ![c] = 1] /\ found' = [found EXCEPT ![c] = 0]
  /\ Go(c, "rudra")
  /\ UNCHANGED <<campaign, phase, cache, listed, delay, orphans, reports, ended, cut>>

(* rudra_report: a report goes to the buffer.                              *)
Found(c) ==
  /\ at[c] = "rudra" /\ found[c] < MaxReports
  /\ found' = [found EXCEPT ![c] = @ + 1]
  /\ UNCHANGED <<campaign, phase, cache, listed, at, delay, target, orphans, reports, ended, cut>>

(* Slip: all targets of a crate report to one file.                        *)
PathOfCrate(c, t) == <<c, Len(Targets)>>

(* in_cargo_rudra, inside_cargo_rustc: RUDRA_REPORT_PATH gets the kind and *)
(* the name of the target.                                                 *)
Path(c, t) == <<c, t>>

(* Dropping the FlushHandle: also after a compile error and in a panic.    *)
Flush(c, t, n) ==
  /\ reports' = IF n > 0 THEN [reports EXCEPT ![Path(c, t)] = n] ELSE reports
  /\ ended' = ended \union {<<c, t, n>>}

RudraEnds(c) ==
  /\ at[c] = "rudra"
  /\ Flush(c, target[c], found[c])
  /\ found' = [found EXCEPT ![c] = 0]
  /\ \/ /\ target[c] < Len(Targets)
        /\ target' = [target EXCEPT ![c] = @ + 1]
        /\ UNCHANGED at
     \/ Go(c, "clean") /\ UNCHANGED target    \* the last target, or a failure
  /\ UNCHANGED <<campaign, phase, cache, listed, delay, orphans, cut>>

(* After an hour cargo is killed, but not the process it started.          *)
Timeout(c) ==
  /\ at[c] = "rudra"
  /\ orphans' = orphans \union {<<c, target[c], found[c]>>}
  /\ Go(c, "clean")
  /\ UNCHANGED <<campaign, phase, cache, listed, delay, target, found, reports, ended, cut>>

OrphanEnds(o) ==
  /\ orphans' = orphans \ {o}
  /\ Flush(o[1], o[2], o[3])
  /\ UNCHANGED <<campaign, phase, cache, listed, at, delay, target, found, cut>>

(* Nobody reads what it prints any more.                                   *)
OrphanDies(o) ==
  /\ orphans' = orphans \ {o}
  /\ UNCHANGED <<campaign, phase, cache, listed, at, delay, target, found, reports, ended, cut>>

Clean(c) ==
  /\ at[c] = "clean"
  /\ Go(c, "done")
  /\ UNCHANGED <<campaign, phase, cache, listed, delay, analysis, cut>>

Finish ==
  /\ phase = "analyse" /\ \A i \in Item : at[i] = "done"
  /\ End
  /\ UNCHANGED <<cache, orphans, cut>>

(* The machine stops.                                                      *)
Crash ==
  /\ phase # "idle"
  /\ End
  /\ orphans' = {}
  /\ FirstCut({i \in Item : at[i] \in {"send", "unpacking"}})
  /\ UNCHANGED cache

Fetch(i) ==
  \/ Check(i) \/ Lock(i) \/ Grant(i) \/ Create(i) \/ Send(i) \/ SendFails(i)
  \/ Unpack(i) \/ Unpacked(i) \/ UnpackFails(i)

Analyse(c) == StartRudra(c) \/ RudraEnds(c) \/ Timeout(c) \/ Clean(c)

CampaignNext ==
  \/ Start \/ Tick \/ List \/ ListFails \/ Choose \/ Finish \/ Crash
  \/ \E i \in Item : Fetch(i)
  \/ \E c \in Crate : Analyse(c) \/ Found(c)
  \/ \E o \in orphans : OrphanEnds(o) \/ OrphanDies(o)

CampaignSpec ==
  /\ CampaignInit /\ [][CampaignNext]_campaignVars
  /\ WF_campaignVars(Tick) /\ WF_campaignVars(List \/ ListFails)
  /\ WF_campaignVars(Choose) /\ WF_campaignVars(Finish)
  /\ \A i \in Item : WF_campaignVars(Fetch(i))
  /\ \A c \in Crate : WF_campaignVars(Analyse(c))

-----------------------------------------------------------------------------
Place == {"idle", "check", "lock", "sleep", "create", "send", "unpack", "unpacking", "list",
          "fetched", "skipped", "ready", "rudra", "clean", "done"}

CampaignTypeOK ==
  /\ campaign \in 0 .. MaxCampaigns
  /\ phase \in {"idle", "index", "fetch", "analyse"}
  /\ file \in [Item -> {"none", "cut", "whole", "wrong"}]
  /\ content \in [Item -> {"none", "part", "whole"}]
  /\ listed \subseteq Crate
  /\ at \in [Item -> Place]
  /\ holder \in Item \union {Nobody}
  /\ since \in 0 .. REQUIRED_DELAY + 1 /\ lastGrant \in 0 .. REQUIRED_DELAY
  /\ wait \in [Item -> 0 .. REQUIRED_DELAY]
  /\ target \in [Crate -> 1 .. Len(Targets)] /\ found \in [Crate -> 0 .. MaxReports]
  /\ reports \in [Crate \X (1 .. Len(Targets)) -> 0 .. MaxReports]
  /\ cut \in [Item -> 0 .. MaxCampaigns]

(* However many threads download, two of them are never let through within *)
(* REQUIRED_DELAY of each other.                                           *)
DownloadsAreSpaced ==
  [][\A i \in Item : at[i] = "sleep" /\ at'[i] = "create" => lastGrant >= REQUIRED_DELAY]_campaignVars

(* The index that is read and the crates that are analysed are whole,      *)
(* unless an earlier campaign was cut off at them or failed on them: what  *)
(* fails is never used by the campaign it fails in.                        *)
PartialOnlyAfterCut ==
  /\ \A c \in Crate :
       at[c] \in {"ready", "rudra", "clean"} /\ content[c] # "whole" => cut[c] \in 1 .. campaign - 1
  /\ phase \in {"fetch", "analyse"} /\ listed # Crate => cut[Index] \in 1 .. campaign - 1

(* Every Rudra process of the campaign that came to an end, be it late, in *)
(* an error or in a panic, has its reports in a file of its own.           *)
ReportsAreKept == \A e \in ended : reports[<<e[1], e[2]>>] = e[3]

(* A campaign comes to its end, also when Rudra hangs and downloads fail.  *)
CampaignEnds == phase # "idle" ~> phase = "idle"
=============================================================================
