---------------------------- MODULE WeightDownload ----------------------------
(* The weight downloader (download_weights.py): runs that fetch the weight  *)
(* files one after another from the hub or, when that fails, from their     *)
(* URL, and that may be killed.                                             *)
EXTENDS Integers, Sequences, FiniteSets, SequencesExt

CONSTANT MaxDownloadKills    \* bound: download runs killed

ASSUME DownloadAssumption == MaxDownloadKills \in Nat

VARIABLES
    weights,     \* weights[k]: the file, "none", "part" or "full"
    downloader,  \* the download run
    orphans,     \* history: files whose process was killed while writing them
    downloadKills

downloadVars == <<weights, downloader, orphans, downloadKills>>

(* Downloads.  A file that exists is skipped and counted as a success       *)
(* unless --force; the hub delivers a whole file; the URL fallback writes   *)
(* in place, and any exception, before the first byte too, unlinks the file *)
(* of before.  No checksum is known, so nothing is verified.                *)
WeightFiles == <<"lstm", "xgb-a", "xgb-b">>
NoDownload == [todo |-> <<>>, force |-> FALSE, at |-> "file", failed |-> FALSE,
               wanted |-> {}]
Downloading == downloader.todo # <<>>
Current == Head(downloader.todo)

StartDownload ==
    /\ ~Downloading
    /\ \E force \in BOOLEAN, models \in {WeightFiles} \cup {<<k>> : k \in ToSet(WeightFiles)} :
          downloader' = [todo |-> models, force |-> force, at |-> "file",
                         failed |-> FALSE, wanted |-> ToSet(models)]
    /\ UNCHANGED <<weights, orphans, downloadKills>>

FailureForgotten(ok) ==                 \* mutant: the last file decides
    [downloader EXCEPT !.todo = Tail(@), !.at = "file", !.failed = ~ok]

NextFile(ok) ==
    [downloader EXCEPT !.todo = Tail(@), !.at = "file", !.failed = @ \/ ~ok]

Stored(content, ok) ==
    /\ weights' = [weights EXCEPT ![Current] = content]
    /\ orphans' = orphans \ {Current}
    /\ downloader' = NextFile(ok)

SkipExisting ==
    /\ Downloading /\ downloader.at = "file"
    /\ weights[Current] # "none" /\ ~downloader.force
    /\ downloader' = NextFile(TRUE)
    /\ UNCHANGED <<weights, orphans>>

MayFetch == weights[Current] = "none" \/ downloader.force

HubFetch ==
    /\ Downloading /\ downloader.at = "file" /\ MayFetch
    /\ Stored("full", TRUE)

UrlFails ==
    /\ Downloading
    /\ \/ downloader.at = "file" /\ MayFetch
       \/ downloader.at = "writing"
    /\ Stored("none", FALSE)

UrlStarts ==
    /\ Downloading /\ downloader.at = "file" /\ MayFetch
    /\ weights' = [weights EXCEPT ![Current] = "part"]
    /\ downloader' = [downloader EXCEPT !.at = "writing"]
    /\ UNCHANGED orphans

UrlDone ==
    /\ Downloading /\ downloader.at = "writing"
    /\ Stored("full", TRUE)

DownloadStep ==
    /\ SkipExisting \/ HubFetch \/ UrlFails \/ UrlStarts \/ UrlDone
    /\ UNCHANGED downloadKills

KillDownloader ==
    /\ Downloading /\ downloadKills < MaxDownloadKills
    /\ downloadKills' = downloadKills + 1
    /\ downloader' = NoDownload
    /\ orphans' = IF downloader.at = "writing" THEN orphans \cup {Current}
                  ELSE orphans
    /\ UNCHANGED weights

-----------------------------------------------------------------------------
DownloadInit ==
    /\ weights = [k \in ToSet(WeightFiles) |-> "none"]
    /\ downloader = NoDownload
    /\ orphans = {}
    /\ downloadKills = 0

DownloadNext == StartDownload \/ DownloadStep \/ KillDownloader

DownloadSpec == DownloadInit /\ [][DownloadNext]_downloadVars

-----------------------------------------------------------------------------
(* A download run that ends without a failure has left every file it was    *)
(* asked for, and a partial file is the one being written or was left by a  *)
(* killed process (main, _download_from_url): it is later skipped as        *)
(* existing.                                                                *)
DownloadsHonest ==
    /\ \A k \in ToSet(WeightFiles) :
          weights[k] = "part" =>
              \/ k \in orphans
              \/ Downloading /\ Current = k /\ downloader.at = "writing"
    /\ ~Downloading /\ ~downloader.failed =>
          \A k \in downloader.wanted : weights[k] # "none"

(* "Exit code (0 = success)" (download_weights.py:321): every file that was *)
(* asked for is whole, one found in its place and skipped included.         *)
SuccessIsWhole ==
    ~Downloading /\ ~downloader.failed =>
        \A k \in downloader.wanted : weights[k] = "full"
=============================================================================
