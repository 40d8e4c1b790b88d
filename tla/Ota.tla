--------------------------------- MODULE Ota ---------------------------------
(***************************************************************************)
(* Over-the-air updates of firmware (FOTA) and configuration (COTA): the   *)
(* push handler ota_callback, the download in IOT_OTA_FetchYield           *)
(* (iotx_ota.c, ota_fetch.c over infra_httpc.c), and the device model's    *)
(* dm_fota_perform_sync and dm_cota_perform_sync, which store and verify   *)
(* what is downloaded.                                                     *)
(*                                                                         *)
(* The signal thread yields the MQTT client, handles the pushes and        *)
(* reports them to the application (iotx_dm_dispatch); the update thread   *)
(* performs an update.  They share the OTA handle without a lock.          *)
(*                                                                         *)
(* A file is a sequence of units <<image, index>>.  A digest is the        *)
(* sequence that was hashed: two files with one digest are the same file.  *)
(***************************************************************************)
EXTENDS Integers, Sequences

CONSTANTS Images,     \* what the cloud can offer
          Kind, Size, \* of each image: "fota" or "cota", and its length
          MaxPushes,  \* bound: pushes that arrive
          MaxFails,   \* bound: downloads that fail although there is data
          MaxRetry,   \* failed downloads in a row after which FOTA gives up
          None

\* A unit of a file, or the error page (below).
Units == (Images \cup {"page"}) \X Nat

ASSUME OtaAssumption ==
    /\ Kind \in [Images -> {"fota", "cota"}] /\ Size \in [Images -> Nat \ {0}]
    /\ MaxPushes \in Nat /\ MaxFails \in Nat /\ MaxRetry \in Nat
    /\ None \notin Images \cup Seq(Units)

VARIABLES
    state, type, size_file, size_fetched,
    ch_fetch,   \* None, or the channel: the image, the units it starts from and
                \* delivers next, and the push that opened it (0: IOT_OTA_FetchYield)
    md5,        \* None, or what was hashed
    version, purl, md5sum,         \* the firmware announced
    cota_url, sign, configSize,    \* the configuration announced
    is_report,  \* by kind: is_report_new_config
    spc, push,  \* the signal thread: step, and the push it handles
    upc,        \* the update thread: "idle", or the kind of update it performs
    step, chan, \* its step, and the channel it downloads from
    output,     \* what was downloaded and is not written yet
    retry,
    stored, mbedbl_status,   \* the HAL: what was written, and its two flags
    pushes, fails,
    accepted,   \* history: the pushes that were accepted so far,
    reported,   \* the ones of them that were reported to the user,
    result,     \* the last update: its kind, its result, and if the HAL committed it,
    restarted   \* and if a configuration push reset the accounts of the update

params == <<version, purl, md5sum, cota_url, sign, configSize>>
fetchv == <<state, type, size_file, size_fetched, ch_fetch, md5>>
signal == <<spc, push, pushes>>
update == <<upc, step, chan, output, retry, stored, mbedbl_status, fails, result>>
news   == <<is_report, accepted, reported>>
otaVars == <<params, fetchv, signal, update, news, restarted>>

ImageKinds == {"fota", "cota"}
Content(img) == [i \in 1 .. Size[img] |-> <<img, i - 1>>]
NoResult == [kind |-> "none", how |-> "none", committed |-> FALSE]

OtaInit ==
    /\ state = "inited" /\ type = "none" /\ size_file = 0 /\ size_fetched = 0
    /\ ch_fetch = None /\ md5 = <<>>
    /\ version = None /\ purl = None /\ md5sum = None /\ cota_url = None /\ sign = None /\ configSize = 0
    /\ is_report = [k \in ImageKinds |-> FALSE]
    /\ spc = "idle" /\ push = None /\ pushes = 0
    /\ upc = "idle" /\ step = "none" /\ chan = None /\ output = <<>> /\ retry = 0
    /\ stored = <<>> /\ mbedbl_status = {} /\ fails = 0 /\ result = NoResult
    /\ accepted = 0 /\ reported = {} /\ restarted = FALSE

-----------------------------------------------------------------------------
(* The push handler *)

\* A push is refused while a download runs.
Admits == state # "fetching"

\* A message without "message", "data" or "code", or one of failure, is refused too.
PushArrives(img) ==
    /\ spc = "idle" /\ pushes < MaxPushes /\ pushes' = pushes + 1
    /\ \/ Admits /\ spc' = "parse" /\ push' = img
       \/ UNCHANGED <<spc, push>>
    /\ UNCHANGED <<params, fetchv, update, news, restarted>>

\* otalib_GetParams and otalib_GetConfigParams write each value as they find
\* it and stop at the first one that is missing: n values are found.
ParsePush(n) ==
    LET img == push
        fota == Kind[img] = "fota"
    IN  /\ spc = "parse"
        /\ spc' = IF n = 4 THEN "channel" ELSE "idle"
        /\ version'    = IF fota /\ n >= 1 THEN img ELSE version
        /\ purl'       = IF fota /\ n >= 2 THEN img ELSE purl
        /\ md5sum'     = IF fota /\ n >= 3 THEN img ELSE md5sum
        /\ configSize' = IF ~fota /\ n >= 1 THEN Size[img] ELSE configSize
        /\ sign'       = IF ~fota /\ n >= 2 THEN img ELSE sign
        /\ cota_url'   = IF ~fota /\ n >= 3 THEN img ELSE cota_url
        /\ size_file'  = IF fota /\ n = 4 THEN Size[img] ELSE size_file
        /\ push' = IF n = 4 THEN push ELSE None
        /\ UNCHANGED <<state, type, size_fetched, ch_fetch, md5, pushes, update, news, restarted>>

\* ofc_Init: a channel at an offset, or NULL.  The channel that was there is
\* not closed.
Channel(img, offset, no) == [img |-> img, first |-> offset, next |-> offset, no |-> no]
OpenChannel(img, offset) == ch_fetch' = Channel(img, offset, pushes) \/ ch_fetch' = None

\* A configuration starts from nothing, firmware where the last download stood.
\* The handler may have been admitted before an update that now runs.
PushChannel ==
    /\ spc = "channel"
    /\ IF Kind[push] = "cota"
       THEN /\ size_file' = configSize /\ size_fetched' = 0 /\ md5' = <<>>
            /\ OpenChannel(cota_url, 0) /\ restarted' = (restarted \/ upc # "idle")
       ELSE OpenChannel(purl, size_fetched) /\ UNCHANGED <<size_file, size_fetched, md5, restarted>>
    /\ spc' = IF ch_fetch' = None THEN "idle" ELSE "type"
    /\ push' = IF ch_fetch' = None THEN None ELSE push
    /\ UNCHANGED <<state, type, params, pushes, update, news>>

\* The type is set before the state.
PushType ==
    /\ spc = "type" /\ spc' = "done" /\ type' = Kind[push]
    /\ UNCHANGED <<state, size_file, size_fetched, ch_fetch, md5, params, push, pushes, update, news, restarted>>

\* _dm_ota_clean_state, the callback of a push
CleanState == [k \in ImageKinds |-> FALSE]

PushDone ==
    /\ spc = "done" /\ spc' = "idle" /\ push' = None
    /\ state' = "pushed"
    /\ is_report' = CleanState /\ accepted' = accepted + 1
    /\ UNCHANGED <<type, size_file, size_fetched, ch_fetch, md5, params, pushes, update, reported, restarted>>

\* dm_fota_status_check and dm_cota_status_check report the push whose parameters
\* the handle holds, the last one accepted; the message to the user may fail.
StatusCheck(k) ==
    /\ spc = "idle" /\ state \in {"pushed", "fetching"} /\ type = k /\ ~is_report[k]
    /\ is_report' = [is_report EXCEPT ![k] = TRUE] /\ reported' = reported \cup {accepted}
    /\ UNCHANGED <<params, fetchv, signal, update, accepted, restarted>>

-----------------------------------------------------------------------------
(* The update thread *)

\* dm_fota_perform_sync, dm_cota_perform_sync: with another type, or before the
\* first push (IOT_OTA_Ioctl refuses every query), it returns at once.
Perform(k) ==
    /\ upc = "idle" /\ state # "inited" /\ type = k
    /\ upc' = k /\ step' = "yield" /\ size_fetched' = 0 /\ stored' = <<>> /\ mbedbl_status' = {}
    /\ result' = NoResult /\ restarted' = FALSE
    /\ UNCHANGED <<state, type, size_file, ch_fetch, md5, params, signal, chan, output, retry, fails, news>>

\* The end of an update.  IOT_OTAG_RESET_STATE is sent with a NULL buffer and
\* IOT_OTA_Ioctl refuses it: the state stays.  HAL_Firmware_Persistence_Stop
\* commits what was written, whatever it is, if the writing was prepared and none
\* failed; the commit may fail too, and its result is dropped.
Return(how, status) ==
    /\ upc' = "idle" /\ step' = "none" /\ chan' = None /\ output' = <<>> /\ stored' = <<>> /\ retry' = 0
    /\ mbedbl_status' = status
    /\ \E committed \in BOOLEAN :
         /\ committed => status = {"prepared"}
         /\ result' = [kind |-> upc, how |-> how, committed |-> committed]
    /\ is_report' = [is_report EXCEPT ![upc] = FALSE]

\* Mutant of CountRetry: failures are not counted.
RetryUncounted == retry' = retry
CountRetry == retry' = retry + 1

RetriesLeft == retry < MaxRetry

\* A failed download: FOTA tries again until it failed MaxRetry times in a
\* row, COTA returns.
FetchFails ==
    IF upc = "fota" /\ RetriesLeft
    THEN CountRetry /\ step' = "yield" /\ chan' = None /\ UNCHANGED <<upc, output, stored, mbedbl_status, result, is_report>>
    ELSE Return("fail", mbedbl_status)

\* ofc_Init in IOT_OTA_FetchYield: with the URL of the type, from the size
\* fetched so far; it may fail.  Without a type there is no URL.
Reopened ==
    \/ /\ type = "none" /\ ch_fetch' = None /\ UNCHANGED fails
    \/ /\ type # "none" /\ UNCHANGED fails
       /\ ch_fetch' = Channel(IF type = "fota" THEN purl ELSE cota_url, size_fetched, 0)
    \/ /\ type # "none" /\ ch_fetch' = None /\ fails < MaxFails /\ fails' = fails + 1

\* IOT_OTA_FetchYield up to the download: a digest and a channel if there is none.
FetchYield ==
    /\ upc # "idle" /\ step = "yield"
    /\ \/ /\ state \in {"pushed", "fetching"}
          /\ state' = "fetching" /\ md5' = IF md5 = None THEN <<>> ELSE md5
          /\ IF ch_fetch = None THEN Reopened ELSE UNCHANGED <<ch_fetch, fails>>
          /\ IF ch_fetch' = None THEN FetchFails
             ELSE /\ step' = "fetch" /\ chan' = ch_fetch'
                  /\ UNCHANGED <<upc, output, stored, mbedbl_status, result, is_report, retry>>
       \/ /\ state \notin {"pushed", "fetching"} /\ FetchFails
          /\ UNCHANGED <<state, md5, ch_fetch, fails>>
    /\ UNCHANGED <<type, size_file, size_fetched, params, signal, accepted, reported, restarted>>

\* What the server may answer to a request besides the file: an error page, which
\* is taken for data because the status code is not looked at.  It may be empty:
\* an answer of Content-Length 0 is a success of zero bytes.
Pages == {<<>>, << <<"page", 0>> >>}

\* What the channel may deliver next: the rest of the file, unit by unit, or, as
\* the whole answer, a page; from behind the end of the file always a page.  Behind
\* the answer nothing comes and the read times out.
Delivers(c) ==
    (IF c.next < Size[c.img] THEN {<< <<c.img, c.next>> >>} ELSE {}) \cup (IF c.next = c.first THEN Pages ELSE {})
Ended(c) == Delivers(c) = {}
Advanced(c, out) == [c EXCEPT !.next = IF out \in Pages THEN @ + Size[c.img] + 1 ELSE @ + 1]

\* Mutant of RestartDigest: the digest goes on from an earlier download.
NoRestart == md5
\* The digest starts with the first data.
RestartDigest == IF size_fetched = 0 THEN <<>> ELSE md5

\* The download succeeds, be it with zero bytes, and the failures are forgotten.
\* The channel is advanced where it is still the handle's.
Fetched ==
    /\ upc # "idle" /\ step = "fetch" /\ md5 # None
    /\ \E out \in Delivers(chan) :
         /\ md5' = RestartDigest \o out /\ size_fetched' = size_fetched + Len(out) /\ output' = out
         /\ ch_fetch' = IF ch_fetch = chan THEN Advanced(chan, out) ELSE ch_fetch
         /\ IF size_fetched + Len(out) >= size_file
            THEN type' = "none" /\ state' = "fetched" ELSE UNCHANGED <<type, state>>
    /\ retry' = 0 /\ step' = "write" /\ chan' = None
    /\ UNCHANGED <<size_file, upc, stored, mbedbl_status, result, fails, params, signal, news, restarted>>

\* It fails: the connection, a timeout, the end of the body.  The handle's
\* channel is closed.
FetchError ==
    /\ upc # "idle" /\ step = "fetch"
    /\ IF ~Ended(chan) THEN fails < MaxFails /\ fails' = fails + 1 ELSE UNCHANGED fails
    /\ ch_fetch' = None /\ FetchFails
    /\ UNCHANGED <<state, type, size_file, size_fetched, md5, params, signal, accepted, reported, restarted>>

\* HAL_Firmware_Persistence_Write: the first write prepares the storage.
Write ==
    /\ upc # "idle" /\ step = "write" /\ step' = "check"
    /\ stored' = stored \o output /\ mbedbl_status' = mbedbl_status \cup {"prepared"} /\ output' = <<>>
    /\ UNCHANGED <<upc, chan, retry, fails, result, fetchv, params, signal, news, restarted>>

\* The storage cannot be prepared, which leaves no mark, or cannot be written.
\* Only FOTA looks at the result; COTA goes on without the data.
WriteFails ==
    /\ upc # "idle" /\ step = "write" /\ fails < MaxFails /\ fails' = fails + 1
    /\ \E status \in {mbedbl_status, {"prepared", "failed"}} :
         /\ status = mbedbl_status => "prepared" \notin status \/ "failed" \in status
         /\ IF upc = "fota" THEN Return("fail", status)
            ELSE /\ step' = "check" /\ output' = <<>> /\ mbedbl_status' = status
                 /\ UNCHANGED <<upc, chan, stored, retry, result, is_report>>
    /\ UNCHANGED <<fetchv, params, signal, accepted, reported, restarted>>

\* the image whose digest the push announced
Expected == IF upc = "fota" THEN md5sum ELSE sign

\* Mutant of Valid: the digest is not compared.
ValidWhenComplete == TRUE
\* IOT_OTAG_CHECK_FIRMWARE and IOT_OTAG_CHECK_CONFIG
Valid == Expected # None /\ md5 = Content(Expected)

Check ==
    /\ upc # "idle" /\ step = "check"
    /\ IF state = "fetched"
       THEN /\ Return(IF Valid THEN "ok" ELSE "fail", mbedbl_status)
            /\ md5' = IF upc = "fota" THEN None ELSE md5
       ELSE step' = "yield" /\ UNCHANGED <<upc, chan, output, stored, mbedbl_status, retry, result, is_report, md5>>
    /\ UNCHANGED <<state, type, size_file, size_fetched, ch_fetch, fails, params, signal, accepted, reported, restarted>>

UpdateStep == FetchYield \/ Fetched \/ FetchError \/ Write \/ WriteFails \/ Check
SignalStep == (\E n \in 0 .. 4 : ParsePush(n)) \/ PushChannel \/ PushType \/ PushDone

OtaNext ==
    \/ \E img \in Images : PushArrives(img)
    \/ SignalStep \/ (\E k \in ImageKinds : StatusCheck(k))
    \/ (\E k \in ImageKinds : Perform(k)) \/ UpdateStep

OtaSpec == OtaInit /\ [][OtaNext]_otaVars

\* Both threads run; that the application performs an update is not assumed.
OtaFairSpec == OtaSpec /\ WF_otaVars(SignalStep) /\ WF_otaVars(UpdateStep) /\ \A k \in ImageKinds : SF_otaVars(StatusCheck(k))

-----------------------------------------------------------------------------
Channels == [img : Images, first : Nat, next : Nat, no : 0 .. MaxPushes]

\* Every variable keeps its range: FOTA gives up after MaxRetry failures in a row,
\* no push is reported before it was accepted, and the digest exists whenever data is
\* hashed.
OtaTypeOK ==
    /\ state \in {"inited", "pushed", "fetching", "fetched"} /\ type \in ImageKinds \cup {"none"}
    /\ size_file \in Nat /\ size_fetched \in Nat /\ configSize \in Nat
    /\ ch_fetch \in Channels \cup {None}
    /\ {version, purl, md5sum, cota_url, sign} \subseteq Images \cup {None}
    /\ is_report \in [ImageKinds -> BOOLEAN]
    /\ spc \in {"idle", "parse", "channel", "type", "done"} /\ push \in Images \cup {None} /\ (spc = "idle" <=> push = None)
    /\ upc \in ImageKinds \cup {"idle"} /\ step \in {"none", "yield", "fetch", "write", "check"}
    /\ (step = "fetch" <=> chan # None) /\ (step = "fetch" => chan \in Channels /\ md5 # None)
    /\ retry \in 0 .. MaxRetry /\ reported \subseteq 0 .. accepted /\ accepted <= pushes
    /\ mbedbl_status \subseteq {"prepared", "failed"}

\* While an update runs, no more is written than was fetched, FOTA has written
\* everything it fetched, and as long as nothing was lost to a write that COTA does
\* not look at, what was written is what was hashed: across retries, channels
\* reopened at size_fetched, answers of zero bytes and firmware pushes handled
\* meanwhile.  A configuration push let in before the download began excepted: it
\* resets the digest and the size (iotx_ota.c:98-108, 134-144) but not the storage.
BytesAgree ==
    LET written == stored \o output
    IN  (upc # "idle" /\ ~restarted) =>
            /\ Len(written) <= size_fetched
            /\ upc = "fota" => Len(written) = size_fetched
            /\ Len(written) = size_fetched /\ (size_fetched > 0 \/ step \in {"write", "check"}) => md5 = written

\* The accounts of a download are sound.
OtaInv == OtaTypeOK /\ BytesAgree

\* A firmware update that returns success has written exactly the image whose
\* digest was announced and has left the HAL ready to commit it, whatever was
\* retried, resumed or announced in pieces before: dm_fota_perform_sync checks the
\* digest of what was hashed, not of what was written.  A configuration update has
\* written the announced file only if it wrote as much as it fetched: it ignores
\* failed writes (dm_cota.c:144) and returns success without the file.  Neither
\* looks at the commit's result.  A configuration push that resets the accounts
\* excepted, as above.
SuccessIsImage ==
    [][(upc # "idle" /\ upc' = "idle" /\ result'.how = "ok" /\ ~restarted) =>
           /\ Expected # None
           /\ upc = "fota" => stored = Content(Expected) /\ mbedbl_status = {"prepared"}
           /\ Len(stored) = size_fetched => stored = Content(Expected)]_otaVars

\* An answer without data is on its way to the storage.
EmptyAnswer == step = "write" /\ output = <<>>

\* Every update returns, also when the server serves less than was announced, other
\* files or error pages, unless empty answers never stop: each of them counts as a
\* success and resets the retries (dm_fota.c:109), and then the update loops for ever.
UpdateEnds == (<>[]~EmptyAnswer) => ((upc # "idle") ~> (upc = "idle"))


\* "reset the ota state to inited" (ota_api.h:91): an update of the firmware that
\* failed has left the state in which every push is refused.
FailedUpdateIsReset == (result.kind = "fota" /\ result.how = "fail") => state # "fetching"
=============================================================================
