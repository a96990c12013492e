----------------------------- MODULE TlsReloader ----------------------------
(***************************************************************************)
(* The TLS certificate of the SMTP server: loaded when the listeners are   *)
(* bound, stated before each handshake and loaded again when the           *)
(* modification time of a file has moved.  Handshakes run concurrently,    *)
(* and the renewal writes the two files at any moment.                     *)
(*                                                                         *)
(* A file's contents are a certificate or a key, or Broken for one that is *)
(* missing or half written.  Every write gives a file a new modification   *)
(* time; a missing file has none, which is 0.                              *)
(***************************************************************************)
EXTENDS Integers

CONSTANTS
    Handshakes,
    Pems,       \* certificates and keys
    Broken,
    Matching,       \* the pairs <<certificate, key>> that belong together
    StartupWrites,  \* may a renewal land while the server starts?
    MaxWrites       \* bound on the writes of the files

ASSUME ReloaderAssumption ==
    /\ Broken \notin Pems
    /\ Matching \subseteq Pems \X Pems
    /\ StartupWrites \in BOOLEAN
    /\ MaxWrites \in Nat

Files == {"cert", "key"}

VARIABLES
    disk,     \* [Files -> [content, mtime]]
    clock,    \* the time of the last write
    startup,  \* phase of TlsReloader::load
    current,  \* the acceptor and the stamp recorded with it
    hs        \* the handshakes

tlsVars == <<disk, clock, startup, current, hs>>

NoStamp == [f \in Files |-> 0]
NoPair  == [f \in Files |-> Broken]

Loads(pair) == <<pair["cert"], pair["key"]>> \in Matching

OnDisk == [f \in Files |-> disk[f].content]

ReloaderInit ==
    /\ disk \in [Files -> [content : Pems, mtime : {1}]]
    /\ clock = 1
    /\ startup = "loadCert"
    /\ current = [pair |-> NoPair, stamp |-> NoStamp]
    /\ hs = [h \in Handshakes |-> [pc |-> "idle", stamp |-> NoStamp, pair |-> NoPair,
                                   served |-> NoPair, began |-> 0]]

(* The renewal replaces, truncates or removes a file. *)
WriteFile(f, content, missing) ==
    /\ clock < MaxWrites
    /\ startup # "running" => StartupWrites
    /\ missing => content = Broken
    /\ clock' = clock + 1
    /\ disk' = [disk EXCEPT ![f] = [content |-> content,
                                    mtime |-> IF missing THEN 0 ELSE clock + 1]]
    /\ UNCHANGED <<startup, current, hs>>

-----------------------------------------------------------------------------
(* TlsReloader::load reads the certificate, reads the key, builds the      *)
(* acceptor, and then states the certificate and the key.  If the pair     *)
(* cannot be used the server does not start.                               *)
LoadCert ==
    /\ startup = "loadCert"
    /\ startup' = "loadKey"
    /\ current' = [current EXCEPT !.pair["cert"] = disk["cert"].content]
    /\ UNCHANGED <<disk, clock, hs>>

LoadKey ==
    LET pair == [current.pair EXCEPT !["key"] = disk["key"].content]
    IN  /\ startup = "loadKey"
        /\ startup' = IF Loads(pair) THEN "stampCert" ELSE "refused"
        /\ current' = [current EXCEPT !.pair = pair]
        /\ UNCHANGED <<disk, clock, hs>>

StampAtStart(f) ==
    /\ startup = IF f = "cert" THEN "stampCert" ELSE "stampKey"
    /\ startup' = IF f = "cert" THEN "stampKey" ELSE "running"
    /\ current' = [current EXCEPT !.stamp[f] = disk[f].mtime]
    /\ UNCHANGED <<disk, clock, hs>>

-----------------------------------------------------------------------------
(* TlsReloader::acceptor, called before each handshake. *)
Move(h, new) ==
    /\ hs' = [hs EXCEPT ![h] = new]
    /\ UNCHANGED <<disk, clock, startup>>

Accept(h) ==
    /\ startup = "running"
    /\ hs[h].pc \in {"idle", "served", "warned"}
    /\ Move(h, [pc |-> "stampCert", stamp |-> NoStamp, pair |-> NoPair,
                served |-> NoPair, began |-> clock])
    /\ UNCHANGED current

Stamp(h, f) ==
    /\ hs[h].pc = IF f = "cert" THEN "stampCert" ELSE "stampKey"
    /\ Move(h, [hs[h] EXCEPT !.pc = IF f = "cert" THEN "stampKey" ELSE "compare",
                             !.stamp[f] = disk[f].mtime])
    /\ UNCHANGED current

(* Mutant: only the certificate is compared. *)
CompareCert(h) ==
    /\ hs[h].pc = "compare"
    /\ Move(h, IF current.stamp["cert"] = hs[h].stamp["cert"]
               THEN [hs[h] EXCEPT !.pc = "served", !.served = current.pair]
               ELSE [hs[h] EXCEPT !.pc = "readCert"])
    /\ UNCHANGED current

(* Under the read lock. *)
Compare(h) ==
    /\ hs[h].pc = "compare"
    /\ Move(h, IF current.stamp = hs[h].stamp
               THEN [hs[h] EXCEPT !.pc = "served", !.served = current.pair]
               ELSE [hs[h] EXCEPT !.pc = "readCert"])
    /\ UNCHANGED current

(* load_tls_acceptor; a read that fails is part of ReadFails. *)
ReadCert(h) ==
    /\ hs[h].pc = "readCert"
    /\ Move(h, [hs[h] EXCEPT !.pc = "readKey", !.pair["cert"] = disk["cert"].content])
    /\ UNCHANGED current

ReadKey(h) ==
    LET pair == [hs[h].pair EXCEPT !["key"] = disk["key"].content]
    IN  /\ hs[h].pc = "readKey"
        /\ Move(h, [hs[h] EXCEPT !.pc = IF Loads(pair) THEN "replace" ELSE "keep",
                                 !.pair = pair])
        /\ UNCHANGED current

ReadFails(h) ==
    /\ hs[h].pc \in {"readCert", "readKey"}
    /\ Move(h, [hs[h] EXCEPT !.pc = "keep"])
    /\ UNCHANGED current

(* Under the write lock: the stamp is the one from before the files were   *)
(* read.                                                                   *)
Replace(h) ==
    /\ hs[h].pc = "replace"
    /\ Move(h, [hs[h] EXCEPT !.pc = "served", !.served = hs[h].pair])
    /\ current' = [pair |-> hs[h].pair, stamp |-> hs[h].stamp]

(* The files could not be loaded: the handshake uses what is there, and    *)
(* the stamp stays unrecorded.                                             *)
Keep(h) ==
    /\ hs[h].pc = "keep"
    /\ Move(h, [hs[h] EXCEPT !.pc = "warned", !.served = current.pair])
    /\ UNCHANGED current

ReloaderNext ==
    \/ \E f \in Files, c \in Pems \union {Broken}, missing \in BOOLEAN :
          WriteFile(f, c, missing)
    \/ LoadCert \/ LoadKey
    \/ \E f \in Files : StampAtStart(f)
    \/ \E h \in Handshakes :
          \/ Accept(h) \/ Compare(h) \/ ReadCert(h) \/ ReadKey(h) \/ ReadFails(h)
          \/ Replace(h) \/ Keep(h)
          \/ \E f \in Files : Stamp(h, f)

ReloaderSpec == ReloaderInit /\ [][ReloaderNext]_tlsVars

-----------------------------------------------------------------------------
Stamps == [Files -> Nat]
Pairs  == [Files -> Pems \union {Broken}]

ReloaderTypeOK ==
    /\ disk \in [Files -> [content : Pems \union {Broken}, mtime : Nat]]
    /\ clock \in Nat
    /\ startup \in {"loadCert", "loadKey", "stampCert", "stampKey", "running", "refused"}
    /\ current \in [pair : Pairs, stamp : Stamps]
    /\ hs \in [Handshakes -> [pc : {"idle", "stampCert", "stampKey", "compare", "readCert",
                                    "readKey", "replace", "keep", "served", "warned"},
                              stamp : Stamps, pair : Pairs, served : Pairs,
                              began : Nat]]

(* What is recorded with an acceptor vouches for it: while a file has the  *)
(* recorded modification time, the acceptor was made from its contents.    *)
RecordedIsLoaded ==
    startup = "running" =>
        \A f \in Files : disk[f].mtime # 0 /\ disk[f].mtime = current.stamp[f]
                            => disk[f].content = current.pair[f]

(* "The certificate is stated before each handshake and reloaded when its  *)
(* modification time moves": a handshake that nothing was logged for, and  *)
(* during which no file was written, serves the pair that is on disk, if   *)
(* that pair can be loaded, whatever other handshakes record meanwhile.    *)
CurrentIsServed ==
    \A h \in Handshakes :
        hs[h].pc = "served" /\ hs[h].began = clock /\ Loads(OnDisk)
            => hs[h].served = OnDisk

(* Keep serving the certificate already loaded rather than dropping TLS:   *)
(* every handshake gets a certificate with its own key, also when it reads *)
(* the files in the middle of a renewal.                                   *)
PairMatches ==
    \A h \in Handshakes : hs[h].pc \in {"served", "warned"} => Loads(hs[h].served)
=============================================================================
