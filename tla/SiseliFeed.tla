----------------------------- MODULE SiseliFeed -----------------------------
(***************************************************************************)
(* The solar inverter's telemetry (server.py 1126-1458, 6826-7068): the    *)
(* portal is polled, and a sniffer on the LAN may decode the same device's *)
(* messages sooner.  A poll works on a copy of the credentials and puts    *)
(* its result in place at the end, whatever came in or was cleared since.  *)
(* One device is both polled and sniffed; further ones are only polled.    *)
(***************************************************************************)
EXTENDS Naturals

CONSTANTS
  Accounts, NoAccount,
  MaxCalls  \* bound: API calls

ASSUME SiseliAssumption == NoAccount \notin Accounts /\ MaxCalls \in Nat

VARIABLES
  account,  \* of the portal, in the credentials file
  tokens,   \* whose tokens the file has
  listed,   \* state.siseli has devices
  sample,   \* telemetry_by_sn of the device
  capture,  \* does the sniffer run
  pending,  \* its last snapshot is kept
  poll,     \* siseli_poll_once
  probe,    \* a request to save an account
  calls

siseliVars == <<account, tokens, listed, sample, capture, pending, poll, probe, calls>>

NoSample == [origin |-> "none", fresh |-> FALSE]
Http == [origin |-> "http", fresh |-> TRUE]
Local == [origin |-> "local", fresh |-> TRUE]
NoPoll == [pc |-> "sleep"]
NoProbe == [pc |-> "none"]

SiseliInit ==
  /\ account \in Accounts \cup {NoAccount} /\ tokens = account
  /\ listed = FALSE /\ sample = NoSample
  /\ capture = FALSE /\ pending = FALSE
  /\ poll = NoPoll /\ probe = NoProbe
  /\ calls = 0

\* should_skip_portal_latest
LiveLocal == capture /\ sample = Local

-----------------------------------------------------------------------------
(* siseli_loop *)

PollStart ==
  /\ poll = NoPoll /\ account # NoAccount
  /\ poll' = [pc |-> "list", of |-> account]
  /\ UNCHANGED <<account, tokens, listed, sample, capture, pending, probe, calls>>

\* Mutant: the loop forgets which devices there are, not what they measured.
LoopForgetsList ==
  /\ poll = NoPoll /\ account = NoAccount /\ listed
  /\ listed' = FALSE
  /\ capture' = FALSE
  /\ UNCHANGED <<account, tokens, sample, pending, poll, probe, calls>>

\* Without an account the loop forgets the devices.
LoopForgets ==
  /\ poll = NoPoll /\ account = NoAccount /\ listed
  /\ listed' = FALSE /\ sample' = NoSample
  /\ capture' = FALSE
  /\ UNCHANGED <<account, tokens, pending, poll, probe, calls>>

\* Refreshed tokens are written to whatever account the file has by then.
TokensStored(of) == tokens' = IF account = NoAccount THEN tokens ELSE of

\* The devices; a snapshot decoded before they were known is used once.
PollList ==
  /\ poll.pc = "list"
  /\ \/ TokensStored(poll.of)
     \/ UNCHANGED tokens
  /\ \/ /\ poll' = [poll EXCEPT !.pc = "check"]
        /\ listed' = TRUE
        /\ sample' = IF pending /\ capture /\ sample.origin # "local" THEN Local
                     ELSE sample
     \/ poll' = NoPoll /\ UNCHANGED <<listed, sample>>
  /\ UNCHANGED <<account, capture, pending, probe, calls>>

\* A fresh local sample spares the portal.
PollChecks ==
  /\ poll.pc = "check"
  /\ poll' = IF LiveLocal THEN [pc |-> "others", got |-> sample]
             ELSE [pc |-> "fetch", live |-> sample, landed |-> FALSE]
  /\ UNCHANGED <<account, tokens, listed, sample, capture, pending, probe, calls>>

\* The portal's answer is stored; when it fails, the sample seen before is
\* published again, and stored again if it was the portal's.
PollFetch ==
  /\ poll.pc = "fetch"
  /\ \E got \in {Http, poll.live} :
       /\ poll' = [pc |-> "others", got |-> got]
       /\ sample' = IF got.origin = "http" THEN Http ELSE sample
  /\ UNCHANGED <<account, tokens, listed, capture, pending, probe, calls>>

\* Mutant: the poll's result replaces everything.
PublishedAll(got) == got

\* What the poll has found replaces everything but a fresh local sample.
Published(got) == IF LiveLocal THEN sample ELSE got

PollEnds ==
  /\ poll.pc = "others"
  /\ sample' = Published(poll.got)
  /\ listed' = TRUE
  /\ poll' = NoPoll
  /\ UNCHANGED <<account, tokens, capture, pending, probe, calls>>

-----------------------------------------------------------------------------
(* The sniffer *)

\* History: a local sample becomes usable while the portal is asked.
NoteLanded ==
  poll' = IF poll.pc = "fetch" /\ LiveLocal' THEN [poll EXCEPT !.landed = TRUE] ELSE poll

LocalDecode ==
  /\ capture
  /\ pending' = TRUE
  /\ sample' = IF listed THEN Local ELSE sample
  /\ UNCHANGED capture
  /\ NoteLanded
  /\ UNCHANGED <<account, tokens, listed, probe, calls>>

SampleAges ==
  /\ sample.fresh
  /\ sample' = [sample EXCEPT !.fresh = FALSE]
  /\ UNCHANGED <<account, tokens, listed, capture, pending, poll, probe, calls>>

CaptureFails ==
  /\ capture
  /\ capture' = FALSE
  /\ UNCHANGED <<account, tokens, listed, sample, pending, poll, probe, calls>>

-----------------------------------------------------------------------------
(* The API *)

Call == calls < MaxCalls /\ calls' = calls + 1

\* The LAN settings are kept with the account.
SaveLocal ==
  /\ Call
  /\ account # NoAccount
  /\ capture' \in BOOLEAN
  /\ UNCHANGED <<account, tokens, listed, sample, pending, probe>>
  /\ NoteLanded

\* The portal is asked with the new account; its tokens are stored.
SaveAsks(a) ==
  /\ Call
  /\ probe = NoProbe
  /\ \/ TokensStored(a) /\ probe' = [pc |-> "station", of |-> a]
     \/ UNCHANGED <<tokens, probe>>
  /\ UNCHANGED <<account, listed, sample, capture, pending, poll>>

\* The station is one of the account's or not.
SaveEnds ==
  /\ probe.pc = "station"
  /\ \/ account' = probe.of /\ tokens' = probe.of
     \/ UNCHANGED <<account, tokens>>
  /\ probe' = NoProbe
  /\ UNCHANGED <<listed, sample, capture, pending, poll, calls>>

ClearAccount ==
  /\ Call
  /\ account' = NoAccount /\ tokens' = NoAccount
  /\ capture' = FALSE
  /\ listed' = FALSE /\ sample' = NoSample
  /\ UNCHANGED <<pending, poll, probe>>

SiseliNext ==
  \/ PollStart \/ LoopForgets \/ PollList \/ PollChecks \/ PollFetch \/ PollEnds
  \/ LocalDecode \/ SampleAges \/ CaptureFails
  \/ SaveLocal \/ (\E a \in Accounts : SaveAsks(a)) \/ SaveEnds \/ ClearAccount

SiseliPass ==
  PollStart \/ LoopForgets \/ PollList \/ PollChecks \/ PollFetch \/ PollEnds

\* The loop's requests to the portal are answered or time out.
SiseliFairness ==
  WF_siseliVars(SiseliPass)

SiseliSpec == SiseliInit /\ [][SiseliNext]_siseliVars /\ SiseliFairness

-----------------------------------------------------------------------------
\* A poll does not put the portal's older data over a fresh local sample,
\* except over one that became usable while the portal was asked for this very
\* device (server.py 1392-1402: "Prefer that sample over the HTTP copy").
FreshLocalKept ==
  [][LiveLocal /\ sample'.origin = "http" => poll.pc = "fetch" /\ poll.landed]_siseliVars

\* Clearing the account forgets its devices for good, even when a poll with
\* the old credentials puts them back.
SignedOutForgets ==
  []<>(account # NoAccount \/ (~listed /\ sample = NoSample))
=============================================================================
