----------------------------- MODULE ServerTLS ------------------------------
(***************************************************************************)
(* The gRPC server's TLS: what a configuration comes to, and the           *)
(* certificate, key and client CA files that an agent rotates one after    *)
(* the other while handshakes stat, read and store them again.             *)
(***************************************************************************)
EXTENDS Naturals, FiniteSets

CONSTANTS Handshakes,   \* handshakes at work at once
          MaxVersion,   \* bound: versions of a file
          NoFile        \* a setting that is left empty

ASSUME TLSAssumption == MaxVersion \in Nat

VARIABLES config,      \* CoreConfig's TLS settings
          server,      \* "off", "plaintext", "refused" or the tls.Config's ClientAuth
          file,        \* per file: the version on disk, which is its mtime too
          held,        \* per file: the version the server serves
          modTime,     \* per file: the mtime it remembers
          due,         \* the check interval has elapsed
          shake        \* per handshake: where it is, what it statted and read

tlsVars == <<config, server, file, held, modTime, due, shake>>

Files == {"cert", "key", "ca"}
Nowhere == [f \in Files |-> 0]
Shake(at, stat, read, got) == [at |-> at, stat |-> stat, read |-> read, got |-> got]
Resting == Shake("idle", Nowhere, Nowhere, Nowhere)

ClientAuths == {"", "none", "request", "verify_if_given", "require", "other"}
Settings ==
    [TLSEnabled : BOOLEAN, TLSCertsDir : {NoFile, "dir"}, TLSCertFile : {NoFile, "cert"},
     TLSKeyFile : {NoFile, "key"}, TLSClientCAFile : {NoFile, "ca"}, TLSClientAuth : ClientAuths]

\* A directory of certificates, and clients that must show theirs.
CertsDir ==
    [TLSEnabled |-> FALSE, TLSCertsDir |-> "dir", TLSCertFile |-> NoFile, TLSKeyFile |-> NoFile,
     TLSClientCAFile |-> NoFile, TLSClientAuth |-> "require"]

TLSInit ==
    /\ config \in Settings /\ server = "off"
    /\ file = [f \in Files |-> 1]
    /\ held = Nowhere /\ modTime = Nowhere /\ due = FALSE
    /\ shake = [h \in Handshakes |-> Resting]

-----------------------------------------------------------------------------
(* What the configuration comes to.                                        *)

Or(setting, derived) == IF setting = NoFile THEN derived ELSE setting

\* TLSCertsDir switches TLS on and names what is left empty.
resolveConfig(cfg) ==
    LET dir == cfg.TLSCertsDir # NoFile
        Derived(setting, name) == IF dir THEN Or(setting, name) ELSE setting
    IN  [enabled      |-> cfg.TLSEnabled \/ dir,
         certFile     |-> Derived(cfg.TLSCertFile, "cert"),
         keyFile      |-> Derived(cfg.TLSKeyFile, "key"),
         clientCAFile |-> Derived(cfg.TLSClientCAFile, "ca"),
         clientAuth   |-> cfg.TLSClientAuth]

IsMutualTLSEnabled(cfg) == resolveConfig(cfg).clientCAFile # NoFile

\* LoopbackTrustFile: what an in-process client trusts, if anything.
LoopbackTrustFile(cfg) ==
    IF resolveConfig(cfg).enabled THEN resolveConfig(cfg).certFile ELSE NoFile

Verifying == {"VerifyClientCertIfGiven", "RequireAndVerifyClientCert"}

parseClientAuth(mode, ca) ==
    IF mode = "none" \/ (mode = "" /\ ca = NoFile) THEN "NoClientCert"
    ELSE IF mode = "request" THEN "RequestClientCert"
    ELSE IF mode \in {"", "verify_if_given"} /\ ca # NoFile THEN "VerifyClientCertIfGiven"
    ELSE IF mode = "require" /\ ca # NoFile THEN "RequireAndVerifyClientCert"
    ELSE "refused"

RequiresClientCert(cfg) ==
    /\ resolveConfig(cfg).enabled
    /\ parseClientAuth(resolveConfig(cfg).clientAuth, resolveConfig(cfg).clientCAFile)
         = "RequireAndVerifyClientCert"

TLSShaped(cfg) ==
    cfg.TLSClientAuth # "" \/ NoFile # cfg.TLSClientCAFile \/ NoFile # cfg.TLSCertFile \/ NoFile # cfg.TLSKeyFile

BuiltConfig(cfg) ==
    LET r == resolveConfig(cfg) IN
    IF ~r.enabled THEN IF TLSShaped(cfg) THEN "refused" ELSE "plaintext"
    ELSE IF NoFile \in {r.certFile, r.keyFile} THEN "refused"
    ELSE parseClientAuth(r.clientAuth, r.clientCAFile)

\* The files the server reads.
Used == IF IsMutualTLSEnabled(config) THEN Files ELSE Files \ {"ca"}

\* BuildServerTLSConfig: the first load is forced, and must succeed.
BuildServerTLSConfig ==
    /\ server = "off"
    /\ LET built == BuiltConfig(config)
           loads == built \notin {"refused", "plaintext"}
           ok == file["cert"] = file["key"]
       IN  /\ server' = IF loads /\ ~ok THEN "refused" ELSE built
           /\ held' = IF loads /\ ok THEN [f \in Files |-> IF f \in Used THEN file[f] ELSE 0] ELSE held
           /\ modTime' = IF loads /\ ok THEN [f \in Files |-> IF f \in Used THEN file[f] ELSE 0] ELSE modTime
    /\ UNCHANGED <<config, file, due, shake>>

-----------------------------------------------------------------------------
(* Handshakes.  Each reloads for the client CAs, if there are any, and     *)
(* again for the certificate.  A failed reload leaves everything as it is. *)

Serving == server \notin {"off", "plaintext", "refused"}

Hello(h) ==
    /\ Serving /\ shake[h].at = "idle"
    /\ shake' = [shake EXCEPT ![h] = Shake(IF IsMutualTLSEnabled(config) THEN "for ca" ELSE "for cert",
                                          Nowhere, Nowhere, Nowhere)]
    /\ UNCHANGED <<config, server, file, held, modTime, due>>

\* Where a handshake is after a reload: what it was for, and what comes next.
Take(s) ==
    IF s.at = "for ca"
    THEN Shake("for cert", Nowhere, Nowhere, [f \in Files |-> IF f = "ca" THEN held'["ca"] ELSE 0])
    ELSE Shake("done", Nowhere, Nowhere, [f \in Files |-> IF f = "ca" THEN s.got["ca"] ELSE held'[f]])

\* reload(false) when it is not time yet.
NotDue(h) ==
    /\ shake[h].at \in {"for ca", "for cert"} /\ shake[h].stat = Nowhere /\ ~due
    /\ UNCHANGED <<config, server, file, held, modTime, due>>
    /\ shake' = [shake EXCEPT ![h] = Take(shake[h])]

\* The files are statted one by one, then read one by one, in this order.
StatOrder == <<"cert", "key", "ca">>
Pending(done) == {i \in DOMAIN StatOrder : StatOrder[i] \in Used /\ done[StatOrder[i]] = 0}
First(S) == CHOOSE i \in S : \A j \in S : i <= j

Stat(h) ==
    /\ shake[h].at \in {"for ca", "for cert"}
    /\ due \/ shake[h].stat # Nowhere
    /\ Pending(shake[h].stat) # {}
    /\ LET f == StatOrder[First(Pending(shake[h].stat))]
       IN  shake' = [shake EXCEPT ![h] = Shake(@.at, [@.stat EXCEPT ![f] = file[f]], @.read, @.got)]
    /\ UNCHANGED <<config, server, file, held, modTime, due>>

Statted(h) == shake[h].at \in {"for ca", "for cert"} /\ Pending(shake[h].stat) = {}

Unchanged(h) ==
    /\ Statted(h) /\ shake[h].read = Nowhere
    /\ \A f \in Used : shake[h].stat[f] = modTime[f]
    /\ due' = FALSE
    /\ UNCHANGED <<config, server, file, held, modTime>>
    /\ shake' = [shake EXCEPT ![h] = Take(shake[h])]

ReadFile(h) ==
    /\ Statted(h) /\ Pending(shake[h].read) # {}
    /\ shake[h].read # Nowhere \/ \E f \in Used : shake[h].stat[f] # modTime[f]
    /\ LET f == StatOrder[First(Pending(shake[h].read))]
       IN  shake' = [shake EXCEPT ![h] = Shake(@.at, @.stat, [@.read EXCEPT ![f] = file[f]], @.got)]
    /\ UNCHANGED <<config, server, file, held, modTime, due>>

\* Mutant: the mtimes are looked up when the files have been read.
RememberedAfterwards(h) == [f \in Files |-> IF f \in Used THEN file[f] ELSE 0]

\* The mtimes that are remembered were statted before anything was read.
Remembered(h) == shake[h].stat

\* Certificate and key must belong together; then all is stored at once.
Store(h) ==
    /\ Statted(h) /\ Pending(shake[h].read) = {}
    /\ IF shake[h].read["cert"] = shake[h].read["key"]
       THEN held' = shake[h].read /\ modTime' = Remembered(h) /\ due' = FALSE
       ELSE UNCHANGED <<held, modTime, due>>
    /\ UNCHANGED <<config, server, file>>
    /\ shake' = [shake EXCEPT ![h] = Take(shake[h])]

Finish(h) ==
    /\ shake[h].at = "done"
    /\ shake' = [shake EXCEPT ![h] = Resting]
    /\ UNCHANGED <<config, server, file, held, modTime, due>>

\* An agent writes a file; each write has a later mtime.
Rotate(f) ==
    /\ file[f] < MaxVersion /\ file' = [file EXCEPT ![f] = @ + 1]
    /\ UNCHANGED <<config, server, held, modTime, due, shake>>

TimePasses ==
    /\ Serving /\ ~due /\ due' = TRUE
    /\ UNCHANGED <<config, server, file, held, modTime, shake>>

TLSNext ==
    \/ BuildServerTLSConfig \/ TimePasses
    \/ \E f \in Files : Rotate(f)
    \/ \E h \in Handshakes :
         Hello(h) \/ NotDue(h) \/ Stat(h) \/ Unchanged(h) \/ ReadFile(h) \/ Store(h) \/ Finish(h)

TLSSpec == TLSInit /\ [][TLSNext]_tlsVars

-----------------------------------------------------------------------------
(* Properties                                                              *)

\* However reloads and rotations interleave, a handshake is served a
\* certificate with the key that belongs to it, and a file is never remembered
\* as up to date unless what is served is what is on disk: so the next check
\* that is due picks every rotation up (reload stats before it reads).
RotationIsNotMissed ==
    Serving =>
      /\ held["cert"] = held["key"]
      /\ \A h \in Handshakes : shake[h].at = "done" => shake[h].got["cert"] = shake[h].got["key"]
      /\ \A f \in Used : modTime[f] = file[f] => held[f] = file[f]

\* No setting that asks for TLS ends in plain text, and client certificates are
\* verified only against a bundle that was configured, never against the
\* system's roots; whoever asked for client certificates to be required gets
\* that or no server (resolveConfig, parseClientAuth, BuildServerTLSConfig).
NoSilentDowngrade ==
    /\ server = "plaintext" => ~TLSShaped(config) /\ ~config.TLSEnabled /\ LoopbackTrustFile(config) = NoFile
    /\ server \in Verifying => IsMutualTLSEnabled(config) /\ held["ca"] # 0
    /\ Serving /\ config.TLSClientAuth = "require" => RequiresClientCert(config)
    /\ Serving => LoopbackTrustFile(config) # NoFile

\* What a client meets is what was configured and what is on disk: both of the
\* above, at the start and through every rotation.
TLSIsAsConfigured == RotationIsNotMissed /\ NoSilentDowngrade
=============================================================================
