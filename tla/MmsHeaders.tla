----------------------------- MODULE MmsHeaders -----------------------------
(***************************************************************************)
(* A business phone first tells of an MMS by its header (mms:received) and *)
(* later delivers it (mms:downloaded); nothing joins the two but device,   *)
(* sender and time.  Headers wait in sms_gateway_mms_pending; every run of *)
(* the cron pairs them with deliveries near in time, for good, and reports *)
(* those that have waited too long (worker/sms-gateway-mms-diagnostics.ts).*)
(*                                                                         *)
(* A run reads the headers, then the deliveries, and writes what it made   *)
(* of them in one batch: three steps, between which headers and deliveries *)
(* come in and another run may do the same.                                *)
(*                                                                         *)
(* All headers are of one device and sender: pairing treats each such      *)
(* group by itself.                                                        *)
(***************************************************************************)
EXTENDS Naturals, FiniteSets

CONSTANTS
  Headers,     \* keys of the headers, in the order of SQL
  Downloads,   \* keys of the deliveries, likewise
  Wait,        \* MMS_DOWNLOAD_WAIT_MS, 10 minutes
  Promoters,   \* cron runs that may be under way together
  MaxNow       \* bound: ticks explored

ASSUME HeaderAssumption ==
  /\ Headers \subseteq Nat /\ Downloads \subseteq Nat
  /\ Wait \in Nat /\ MaxNow \in Nat

VARIABLES
  now,
  pending,     \* sms_gateway_mms_pending: records of key and first_at
  downloaded,  \* messages: records of key and created_at
  matches,     \* sms_gateway_mms_matches: pairs of delivery and header
  missing,     \* headers recorded in mo_failures as never downloaded
  promoter,    \* local state of each cron run
  received     \* history: headers the webhook has acknowledged

headerVars == <<now, pending, downloaded, matches, missing, promoter, received>>

Ticks == 0 .. MaxNow
HeaderRows == [key : Headers, at : Ticks]
DownloadRows == [key : Downloads, at : Ticks]
NoPromoter == [pc |-> "idle", now |-> 0, headers |-> {}, downloads |-> {}]

HeaderTypeOK ==
  /\ now \in Ticks
  /\ pending \subseteq HeaderRows
  /\ downloaded \subseteq DownloadRows
  /\ matches \subseteq Downloads \X Headers
  /\ missing \subseteq Headers /\ received \subseteq Headers
  /\ promoter \in [Promoters -> [pc : {"idle", "headers", "downloads"}, now : Ticks,
                                 headers : SUBSET HeaderRows,
                                 downloads : SUBSET DownloadRows]]

HeaderInit ==
  /\ now = 0
  /\ pending = {} /\ downloaded = {} /\ matches = {}
  /\ missing = {} /\ received = {}
  /\ promoter = [p \in Promoters |-> NoPromoter]

KeysOf(rows) == {row.key : row \in rows}
MatchedDownloads == {pair[1] : pair \in matches}
MatchedHeaders == {pair[2] : pair \in matches}

Near(header, download) ==
  download.at + Wait >= header.at /\ download.at <= header.at + Wait

-----------------------------------------------------------------------------
(* A header arrives, or arrives again: a waiting one keeps its time, a     *)
(* matched one is not taken in.                                            *)
RecordPendingMmsHeader(h) ==
  /\ pending' = IF h \in KeysOf(pending) \union MatchedHeaders THEN pending
                ELSE pending \union {[key |-> h, at |-> now]}
  /\ received' = received \union {h}
  /\ UNCHANGED <<now, downloaded, matches, missing, promoter>>

(* An MMS is stored, under its own time, which may be long past.           *)
StoreDownload(d) ==
  /\ d \notin KeysOf(downloaded)
  /\ \E at \in 0 .. now : downloaded' = downloaded \union {[key |-> d, at |-> at]}
  /\ UNCHANGED <<now, pending, matches, missing, promoter, received>>

TimePasses ==
  /\ now < MaxNow
  /\ now' = now + 1
  /\ UNCHANGED <<pending, downloaded, matches, missing, promoter, received>>

-----------------------------------------------------------------------------
Earlier(x, y) == x.at < y.at \/ (x.at = y.at /\ x.key < y.key)
Earliest(rows) == CHOOSE x \in rows : \A y \in rows \ {x} : Earlier(x, y)

(* The earliest header that waits takes the earliest delivery left that is *)
(* near it; deliveries too early for it are left to nobody.                *)
MatchEarliest(group) ==
  LET header == Earliest(group.headers)
      recent == {d \in group.downloads : d.at + Wait >= header.at}
      candidate == Earliest(recent)
      others == [group EXCEPT !.headers = group.headers \ {header}, !.downloads = recent]
  IN IF recent # {} /\ Near(header, candidate)
     THEN [others EXCEPT !.downloads = recent \ {candidate},
                         !.pairs = group.pairs \union {<<candidate.key, header.key>>}]
     ELSE others

(* What is left, and what is paired, after each header.                    *)
GreedyGroups(headerRows, downloadRows) ==
  LET group[n \in 0 .. Cardinality(headerRows)] ==
        IF n = 0 THEN [headers |-> headerRows, downloads |-> downloadRows, pairs |-> {}]
        ELSE MatchEarliest(group[n - 1])
  IN group

GreedyMmsMatches(headerRows, downloadRows) ==
  GreedyGroups(headerRows, downloadRows)[Cardinality(headerRows)].pairs

(* A run begins: it takes the time and reads the waiting headers.          *)
PendingMmsHeaders(p) ==
  /\ promoter[p].pc = "idle"
  /\ promoter' = [promoter EXCEPT ![p] = [NoPromoter EXCEPT !.pc = "headers", !.now = now,
                                                             !.headers = pending]]
  /\ UNCHANGED <<now, pending, downloaded, matches, missing, received>>

(* The deliveries not matched yet, between the first and the last header.  *)
UnmatchedDownloadedMms(p) ==
  /\ promoter[p].pc = "headers"
  /\ promoter' = [promoter EXCEPT
       ![p].pc = "downloads",
       ![p].downloads = {d \in downloaded :
                          /\ d.key \notin MatchedDownloads
                          /\ \E h \in promoter[p].headers : d.at + Wait >= h.at
                          /\ \E h \in promoter[p].headers : d.at <= h.at + Wait}]
  /\ UNCHANGED <<now, pending, downloaded, matches, missing, received>>

(* Mutant: the pairs of a run are written whatever another run has paired. *)
WrittenBlindly(greedy) == matches \union greedy

(* Mutant: the columns of a pair are swapped.                              *)
WrittenSwapped(greedy) == matches \union {<<pair[2], pair[1]>> : pair \in greedy}

(* The pairs that are inserted: those with both sides still unmatched.     *)
WrittenMatches(greedy) ==
  matches \union {pair \in greedy : pair[1] \notin MatchedDownloads
                                    /\ pair[2] \notin MatchedHeaders}

(* The headers that leave with them: those whose pair is in the ledger.    *)
Paired(greedy, written) == {pair[2] : pair \in greedy \intersect written}

(* Mutant: deliveries are looked for among those the run has read.         *)
MissingAsRead(p, waiting, written) ==
  {h.key : h \in {x \in waiting : /\ x.at + Wait <= promoter[p].now
                                  /\ \A d \in promoter[p].downloads : ~Near(x, d)}}

(* The headers reported: old ones near no delivery that is, at the batch,  *)
(* unmatched.                                                              *)
Missing(p, waiting, written) ==
  {h.key : h \in {x \in waiting :
    /\ x.at + Wait <= promoter[p].now
    /\ \A d \in downloaded : Near(x, d) => \E pair \in written : pair[1] = d.key}}

(* One batch: pairs, the headers they resolve, the headers reported.  The  *)
(* last statement takes out every old header that is reported, be it by    *)
(* this run or an earlier one.                                             *)
PromoteStaleMmsHeaders(p) ==
  /\ promoter[p].pc = "downloads"
  /\ LET greedy == GreedyMmsMatches(promoter[p].headers, promoter[p].downloads)
         written == WrittenMatches(greedy)
         waiting == {h \in pending : h.key \notin Paired(greedy, written)}
     IN /\ matches' = written
        /\ missing' = missing \union Missing(p, waiting, written)
        /\ pending' = {h \in waiting : \/ h.at + Wait > promoter[p].now
                                       \/ h.key \notin missing'}
  /\ promoter' = [promoter EXCEPT ![p] = NoPromoter]
  /\ UNCHANGED <<now, downloaded, received>>

(* A read or the batch throws, or the worker stops.                        *)
PromotionFails(p) ==
  /\ promoter[p].pc # "idle"
  /\ promoter' = [promoter EXCEPT ![p] = NoPromoter]
  /\ UNCHANGED <<now, pending, downloaded, matches, missing, received>>

HeaderNext ==
  \/ \E h \in Headers : RecordPendingMmsHeader(h)
  \/ \E d \in Downloads : StoreDownload(d)
  \/ TimePasses
  \/ \E p \in Promoters : \/ PendingMmsHeaders(p) \/ UnmatchedDownloadedMms(p)
                          \/ PromoteStaleMmsHeaders(p) \/ PromotionFails(p)

HeaderSpec == HeaderInit /\ [][HeaderNext]_headerVars

-----------------------------------------------------------------------------
(* The ledger pairs each delivery with one header and each header with one *)
(* delivery, and an acknowledged header waits, is paired or is reported,   *)
(* never two of the first: what overlapping runs made of old reads neither *)
(* pairs twice nor drops a header.                                         *)
HeadersAreAccountedFor ==
  /\ \A x, y \in matches : x[1] = y[1] <=> x[2] = y[2]
  /\ received \subseteq KeysOf(pending) \union MatchedHeaders \union missing
  /\ KeysOf(pending) \intersect MatchedHeaders = {}

(* A header is reported as never downloaded only if, in that very batch,   *)
(* every delivery near it has been given to another header: a delivery     *)
(* that was stored after the run's reads counts.                           *)
ReportedHeadersHaveNoDelivery ==
  [][\A h \in pending : h.key \in missing' \ missing =>
       \A d \in downloaded :
         Near(h, d) => \E pair \in matches' : pair[1] = d.key]_headerVars
=============================================================================
