----------------------------- MODULE ConfigFiles -----------------------------
(***************************************************************************)
(* The configurations that are a few files written one after the other:    *)
(* config_ssl.c, config_8021x.c, config_remotejournal.c, config_ntp.c, and *)
(* the services enabled by the presence of a file, config_service.c.  They *)
(* differ by their script: what they check, what they write, in what order *)
(* and what they return.                                                   *)
(***************************************************************************)
EXTENDS Naturals, Sequences, TextFile

CONSTANTS
    Proc,
    Text,       \* the materials that callers configure
    Request,    \* what they ask for
    CanFail,    \* calls on files may fail, and callers may die
    MaxCalls,   \* bound: the calls that write
    MaxLost     \* bound: the errors of fclose

\* The arguments that the size of a key and the form of an address decide on.
Part == {"key", "cert", "ca", "ip"}

WriteOps == {"ssl", "8021x", "journal", "ntp", "ntpKeys", "enable"}

\* "ca" tells whether an authority is given to config8021xWrite; "valid" are
\* the arguments that pass their check.
ASSUME FilesAssumption ==
    /\ Request \subseteq [op : WriteOps \cup {"disable", "enabled"},
                          text : Text, ca : BOOLEAN, valid : SUBSET Part]
    /\ CanFail \in BOOLEAN
    /\ {MaxCalls, MaxLost} \subseteq Nat
    /\ Text \cap NotText = {}

File == {"sslKey", "sslCert", "journalKey", "journalCert", "journalUrl",
         "journalCa", "radiusKey", "radiusCert", "radiusCa", "wpa",
         "chrony", "chronyKeys", "service"}

VARIABLES
    files,      \* whose text each file holds
    namesCa,    \* the configuration of wpa_supplicant names the authority
    phase,
    request,
    script,     \* what remains to be done of it
    rc,
    calls,      \* how many calls that write were made
    lost,       \* how many errors of fclose, which nobody sees, there were
    mishaps     \* what else went wrong so far

past == <<calls, lost, mishaps>>

filesVars == <<files, namesCa, phase, request, script, rc, past>>

\* A call was ended by an error or a death; two calls met.
Mishap == {"failed", "overlap"}

Failed == mishaps' = mishaps \cup {"failed"} /\ UNCHANGED <<calls, lost>>

Check(part, code) == [do |-> "check", what |-> part, code |-> code]
Write(file, code) == [do |-> "write", what |-> file, code |-> code]

CaSteps(r) ==
    IF r.ca THEN <<Check("ca", "-1"), Write("radiusCa", "-1")>> ELSE <<>>

\* The configuration is written before what it names.
ScriptWpaFirst(r) ==
    <<Write("wpa", "-1"), Write("radiusKey", "-1"), Write("radiusCert", "-1")>>
    \o CaSteps(r)

\* Each file is checked when its turn comes.
ScriptSslLate(r) ==
    <<Check("key", "-1"), Write("sslKey", "-1"), Check("cert", "-1"),
      Write("sslCert", "-1"), Write("journalKey", "-1"),
      Write("journalCert", "-1")>>

\* The second copies are forgotten.
ScriptSslOnce(r) ==
    <<Check("key", "-1"), Check("cert", "-1"), Write("sslKey", "-1"),
      Write("sslCert", "-1")>>

Script8021x(r) ==
    <<Check("key", "-1"), Write("radiusKey", "-1"),
      Check("cert", "-1"), Write("radiusCert", "-1")>>
    \o CaSteps(r) \o <<Write("wpa", "-1")>>

ScriptSsl(r) ==
    <<Check("key", "-1"), Check("cert", "-1"),
      Write("sslKey", "-1"), Write("sslCert", "-1"),
      Write("journalKey", "-1"), Write("journalCert", "-1")>>

ScriptJournal(r) ==
    <<Check("ip", "-1"), Write("journalUrl", "-1"),
      Check("cert", "-2"), Write("journalCa", "-2")>>

Script(r) ==
    CASE r.op = "ssl" -> ScriptSsl(r)
      [] r.op = "8021x" -> Script8021x(r)
      [] r.op = "journal" -> ScriptJournal(r)
      [] r.op = "ntp" -> <<Write("chrony", "-1")>>
      [] r.op = "ntpKeys" -> <<Write("chronyKeys", "-1")>>
      [] r.op = "enable" -> <<Write("service", "-1")>>
      [] OTHER -> <<>>

\* What is returned at the end: the number of characters of the last file, or
\* 0 (a service is enabled by an empty file, of no character).
Code(r) == IF r.op = "8021x" THEN "count" ELSE "0"

FilesTypeOK ==
    /\ files \in [File -> Text \cup NotText]
    /\ namesCa \in BOOLEAN
    /\ phase \in [Proc -> {"idle", "run", "open", "done"}]
    /\ \A p \in Proc : phase[p] # "idle" => request[p] \in Request
    /\ \A p \in Proc :
           \E n \in 0 .. Len(Script(request[p])) :
               script[p] = SubSeq(Script(request[p]), n + 1,
                                  Len(Script(request[p])))
    /\ rc \in [Proc -> {"0", "1", "-1", "-2", "count"}]
    /\ calls \in 0 .. MaxCalls
    /\ lost \in 0 .. MaxLost
    /\ mishaps \subseteq Mishap

Nothing == [op |-> "none"]

Init ==
    /\ files = [f \in File |-> "absent"]
    /\ namesCa = FALSE
    /\ phase = [p \in Proc |-> "idle"]
    /\ request = [p \in Proc |-> Nothing]
    /\ script = [p \in Proc |-> <<>>]
    /\ rc = [p \in Proc |-> "0"]
    /\ calls = 0
    /\ lost = 0
    /\ mishaps = {}

-----------------------------------------------------------------------------
Begin(p, r) ==
    /\ phase[p] = "idle"
    /\ r.op \in WriteOps
    /\ calls < MaxCalls
    /\ calls' = calls + 1
    /\ UNCHANGED lost
    /\ mishaps' = IF \E q \in Proc : phase[q] # "idle"
                  THEN mishaps \cup {"overlap"} ELSE mishaps
    /\ phase' = [phase EXCEPT ![p] = "run"]
    /\ request' = [request EXCEPT ![p] = r]
    /\ script' = [script EXCEPT ![p] = Script(r)]
    /\ UNCHANGED <<files, namesCa, rc>>

At(p, what) == script[p] # <<>> /\ Head(script[p]).do = what

Advance(p) == script' = [script EXCEPT ![p] = Tail(@)]

Ends(p, code) ==
    /\ phase' = [phase EXCEPT ![p] = "done"]
    /\ rc' = [rc EXCEPT ![p] = code]

Passes(p) == Head(script[p]).what \in request[p].valid

\* configCheckSize and configCheckIpV4.
Checked(p) ==
    /\ phase[p] = "run"
    /\ At(p, "check")
    /\ Passes(p)
    /\ Advance(p)
    /\ UNCHANGED <<files, namesCa, phase, request, rc, past>>

Refused(p) ==
    /\ phase[p] = "run"
    /\ At(p, "check")
    /\ ~Passes(p)
    /\ Ends(p, Head(script[p]).code)
    /\ UNCHANGED <<files, namesCa, request, script, past>>

\* A torn configuration may name the authority of either writer.
NamesCa(p, content) ==
    IF Head(script[p]).what # "wpa" THEN namesCa
    ELSE /\ content # "empty"
         /\ request[p].ca \/ (content = "torn" /\ namesCa)

\* configWriteFile: fopen(filename, "w").
OpenFile(p) ==
    /\ phase[p] = "run"
    /\ At(p, "write")
    /\ files' = [files EXCEPT ![Head(script[p]).what] = "empty"]
    /\ namesCa' = NamesCa(p, "empty")
    /\ phase' = [phase EXCEPT ![p] = "open"]
    /\ UNCHANGED <<request, script, rc, past>>

OpenFails(p) ==
    /\ CanFail
    /\ phase[p] = "run"
    /\ At(p, "write")
    /\ Ends(p, Head(script[p]).code)
    /\ Failed
    /\ UNCHANGED <<files, namesCa, request, script>>

\* vfprintf and fclose.
FlushFile(p) ==
    LET file == Head(script[p]).what
    IN  /\ phase[p] = "open"
        /\ \E content \in Flushed(files[file], request[p].text) :
               /\ files' = [files EXCEPT ![file] = content]
               /\ namesCa' = NamesCa(p, content)
        /\ Advance(p)
        /\ phase' = [phase EXCEPT ![p] = "run"]
        /\ UNCHANGED <<request, rc, past>>

\* A failed vfprintf is seen, a failed fclose is not.
FlushFails(p) ==
    LET file == Head(script[p]).what
    IN  /\ CanFail
        /\ phase[p] = "open"
        /\ \E content \in HalfFlushed(files[file]) :
               /\ files' = [files EXCEPT ![file] = content]
               /\ namesCa' = NamesCa(p, content)
        /\ \E seen \in BOOLEAN :
               IF seen
               THEN /\ Ends(p, Head(script[p]).code)
                    /\ Failed
                    /\ UNCHANGED script
               ELSE /\ Advance(p)
                    /\ lost < MaxLost
                    /\ lost' = lost + 1
                    /\ UNCHANGED <<calls, mishaps>>
                    /\ phase' = [phase EXCEPT ![p] = "run"]
                    /\ UNCHANGED rc
        /\ UNCHANGED request

Finish(p) ==
    /\ phase[p] = "run"
    /\ script[p] = <<>>
    /\ Ends(p, Code(request[p]))
    /\ UNCHANGED <<files, namesCa, request, script, past>>

-----------------------------------------------------------------------------
(* configServiceEnable(type, 0) and configServiceIsEnabled: one call each. *)

AsksFor(p, r, op) ==
    /\ phase[p] = "idle"
    /\ r.op = op
    /\ request' = [request EXCEPT ![p] = r]
    /\ UNCHANGED <<namesCa, script, past>>

Disable(p, r) ==
    /\ AsksFor(p, r, "disable")
    /\ files["service"] # "absent"
    /\ files' = [files EXCEPT !["service"] = "absent"]
    /\ Ends(p, "0")

DisableFails(p, r) ==
    /\ AsksFor(p, r, "disable")
    /\ files["service"] = "absent" \/ CanFail
    /\ Ends(p, "-1")
    /\ UNCHANGED files

IsEnabled(p, r) ==
    /\ AsksFor(p, r, "enabled")
    /\ Ends(p, IF files["service"] = "absent" THEN "0" ELSE "1")
    /\ UNCHANGED files

IsEnabledFails(p, r) ==
    /\ CanFail
    /\ AsksFor(p, r, "enabled")
    /\ Ends(p, "-1")
    /\ UNCHANGED files

-----------------------------------------------------------------------------
\* The next call begins with what was left of this one.
GoneWithoutScript(p) ==
    /\ phase' = [phase EXCEPT ![p] = "idle"]
    /\ request' = [request EXCEPT ![p] = Nothing]
    /\ rc' = [rc EXCEPT ![p] = "0"]
    /\ UNCHANGED <<files, namesCa, script>>

Gone(p) ==
    /\ phase' = [phase EXCEPT ![p] = "idle"]
    /\ request' = [request EXCEPT ![p] = Nothing]
    /\ script' = [script EXCEPT ![p] = <<>>]
    /\ rc' = [rc EXCEPT ![p] = "0"]
    /\ UNCHANGED <<files, namesCa>>

Return(p) == phase[p] = "done" /\ Gone(p) /\ UNCHANGED past

Die(p) ==
    /\ CanFail
    /\ phase[p] \in {"run", "open"}
    /\ Gone(p)
    /\ Failed

Ask(p, r) ==
    \/ Begin(p, r)
    \/ Disable(p, r)
    \/ DisableFails(p, r)
    \/ IsEnabled(p, r)
    \/ IsEnabledFails(p, r)

Step(p) ==
    \/ Checked(p)
    \/ Refused(p)
    \/ OpenFile(p)
    \/ OpenFails(p)
    \/ FlushFile(p)
    \/ FlushFails(p)
    \/ Finish(p)
    \/ Return(p)
    \/ Die(p)

Next == \E p \in Proc : (\E r \in Request : Ask(p, r)) \/ Step(p)

Spec == Init /\ [][Next]_filesVars

-----------------------------------------------------------------------------
(* Properties.                                                             *)

(***************************************************************************)
(* The configuration of wpa_supplicant never names an authority whose file *)
(* was never written, whoever writes at the same time, fails or dies: the  *)
(* files come first, the configuration last (config8021xWrite 52-91).      *)
(***************************************************************************)
NoDanglingCa == namesCa => files["radiusCa"] # "absent"

Quiet == \A p \in Proc : phase[p] = "idle"

(***************************************************************************)
(* When nobody is writing, the key and the certificate of the web server   *)
(* are of the same caller, and so are their copies for the journal, though *)
(* calls are refused for the size of either (configSslWrite 30-46).  Files *)
(* that fail, callers that die between two of them and calls that overlap  *)
(* leave the key of one and the certificate of another: nothing undoes the *)
(* files that were written.                                                *)
(***************************************************************************)
PairsMatch ==
    Quiet /\ lost = 0 /\ mishaps = {} =>
        /\ files["sslKey"] = files["sslCert"]
        /\ files["journalKey"] = files["sslKey"]
        /\ files["journalCert"] = files["sslCert"]

(***************************************************************************)
(* "Overwrites the ssl privateKey and certificates files ... returns 0 if  *)
(* ok" (libyocto.h 279-282): every file holds the text of a call that      *)
(* returns 0, whatever failed or died before it.  It does not after an     *)
(* error of fclose, which configWriteFile does not look at (config.c 70),  *)
(* nor when another call was writing.                                      *)
(***************************************************************************)
OkMeansWritten ==
    lost = 0 /\ "overlap" \notin mishaps =>
        \A p \in Proc :
            phase[p] = "done" /\ rc[p] = "0" /\ request[p].op = "ssl" =>
                \A f \in {"sslKey", "sslCert", "journalKey", "journalCert"} :
                    files[f] = request[p].text

=============================================================================
