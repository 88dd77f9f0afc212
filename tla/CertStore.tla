------------------------------- MODULE CertStore -------------------------------
(***************************************************************************)
(* The certificate engine (proxy/cert.rs, the Linux installer): the root   *)
(* CA kept in two files, the copy of it the browsers trust, the key and    *)
(* the leaf certificates a run of the program caches, and who works on     *)
(* them at the same time: main before the window opens, the buttons of the *)
(* settings panel, and one handler thread for each CONNECT.                *)
(*                                                                         *)
(* A key pair is a number; the CA certificate and the key made of it are   *)
(* both that number, and so is what signed a leaf certificate.             *)
(* fs::write truncates a file in one step and fills it in another, either  *)
(* of which may fail; the program may end between any two steps.           *)
(***************************************************************************)
EXTENDS Naturals

CONSTANTS
    Handlers,      \* handler threads of CONNECT requests
    Window,        \* the main thread
    Domains,
    Missing,       \* no such file; nothing cached; no such certificate
    Torn,          \* a file cut short
    Foreign,       \* a CA certificate the user brings along
    MaxPairs,      \* bound: key pairs ever generated
    MaxRuns        \* bound: runs of the program

Actors == Handlers \cup {Window}
Pairs  == 1 .. MaxPairs
Works  == Domains \cup {"startup", "regenerate", "export", "trust", "import"}

ASSUME CertAssumption ==
    /\ MaxPairs \in Nat /\ MaxRuns \in Nat
    /\ Window \notin Handlers /\ Missing \notin Actors
    /\ {Missing, Torn, Foreign} \cap Nat = {}
    /\ Missing # Torn /\ Missing # Foreign /\ Torn # Foreign
    /\ Domains \cap {"startup", "regenerate", "export", "trust", "import"} = {}

VARIABLES
    cert_file,     \* ca_cert_v2.pem
    key_file,      \* ca_key_v2.pem
    trusted,       \* the "AJProxy Root CA" of the browsers' NSS databases
    key_cache,     \* CA_KEY_PEM_CACHE
    leaf_cache,    \* CERT_CACHE: which key signed the leaf of a domain
    pc,            \* where an actor is
    work,          \* what it does: the domain it needs a leaf for, or the button
    pair,          \* the pair it has just made, or signs with
    pairs_made, runs,    \* counters
    served,        \* history: the keys that signed the leaves of this run
    hurt,          \* history: the files were left to an import, to two writers at once
                   \* or to a write that ended halfway, and not generated anew since
    alone,         \* history: who has been the only writer since it began
    regenerated    \* history: the user asked for a new CA in this run

disk    == <<cert_file, key_file>>
memory  == <<key_cache, leaf_cache, served>>
counts  == <<pairs_made, runs>>
history == <<hurt, alone, regenerated>>
vars    == <<disk, trusted, memory, pc, work, pair, counts, history>>

Places == {"idle", "ensure", "cert_open", "cert_write", "key_open", "key_write",
           "nss_delete", "nss_add", "read_key", "sign", "import_open", "import_write"}

TypeOK ==
    /\ cert_file \in Pairs \cup {Missing, Torn, Foreign}
    /\ key_file \in Pairs \cup {Missing, Torn}
    /\ trusted \in Pairs \cup {Missing, Foreign}
    /\ key_cache \in Pairs \cup {Missing, Torn}
    /\ leaf_cache \in [Domains -> Pairs \cup {Missing}]
    /\ pc \in [Actors -> Places] /\ work \in [Actors -> Works \cup {Missing}]
    /\ pair \in [Actors -> Pairs \cup {Missing}]
    /\ pairs_made \in 0 .. MaxPairs /\ runs \in Nat
    /\ served \in SUBSET Pairs
    /\ hurt \in BOOLEAN /\ regenerated \in BOOLEAN
    /\ alone \in Actors \cup {Missing}

\* main runs ensure_ca_cert_exists before anything else.
StartPc   == [a \in Actors |-> IF a = Window THEN "ensure" ELSE "idle"]
StartWork == [a \in Actors |-> IF a = Window THEN "startup" ELSE Missing]

Init ==
    /\ cert_file = Missing /\ key_file = Missing /\ trusted = Missing
    /\ key_cache = Missing /\ leaf_cache = [d \in Domains |-> Missing]
    /\ pc = StartPc /\ work = StartWork /\ pair = [a \in Actors |-> Missing]
    /\ pairs_made = 0 /\ runs = 1
    /\ served = {} /\ hurt = FALSE /\ alone = Missing /\ regenerated = FALSE

-----------------------------------------------------------------------------
(* Helpers *)

Goto(a, place) == pc' = [pc EXCEPT ![a] = place] /\ UNCHANGED work

Moves(a, from, to) == pc[a] = from /\ Goto(a, to) /\ UNCHANGED pair

\* Done, or an error is returned: the handler closes its connection, main goes on
\* without installing, a button shows the message.
Ends(a) == Goto(a, "idle") /\ pair' = [pair EXCEPT ![a] = Missing]

\* What the caller does once the CA is there.
AfterEnsure(a) ==
    CASE a \in Handlers                   -> "read_key"
      [] work[a] \in {"startup", "trust"} -> "nss_delete"
      [] OTHER                            -> "idle"

Writing == {"cert_open", "cert_write", "key_open", "key_write", "import_open", "import_write"}

BothExist == cert_file # Missing /\ key_file # Missing

\* A second writer may come while another one writes.
BeginsWriting(a) ==
    LET others == \E b \in Actors \ {a} : pc[b] \in Writing
    IN  /\ alone' = IF others THEN Missing ELSE a
        /\ hurt' = (hurt \/ others)

\* generate_and_save_ca: a fresh key pair first.
BeginsGeneration(a) ==
    /\ pairs_made < MaxPairs
    /\ pairs_made' = pairs_made + 1
    /\ pair' = [pair EXCEPT ![a] = pairs_made + 1]
    /\ BeginsWriting(a)

\* A write ends halfway: the next ensure makes it good only if a file is missing.
EndsHalfway(a) ==
    /\ Ends(a)
    /\ hurt' = (hurt \/ BothExist)
    /\ UNCHANGED <<alone, regenerated, disk>>

-----------------------------------------------------------------------------
(* ensure_ca_cert_exists and generate_and_save_ca *)

EnsureFrame == UNCHANGED <<disk, trusted, memory, runs, regenerated>>

EnsureExists(a) ==
    /\ BothExist
    /\ Moves(a, "ensure", AfterEnsure(a))
    /\ UNCHANGED <<pairs_made, hurt, alone>>
    /\ EnsureFrame

\* Broken: makes only the file that is missing.
EnsureMissingOnly(a) ==
    \/ EnsureExists(a)
    \/ /\ ~BothExist
       /\ pc[a] = "ensure" /\ Goto(a, IF cert_file = Missing THEN "cert_open" ELSE "key_open")
       /\ BeginsGeneration(a)
       /\ EnsureFrame

Ensure(a) ==
    \/ EnsureExists(a)
    \/ /\ ~BothExist
       /\ pc[a] = "ensure" /\ Goto(a, "cert_open")
       /\ BeginsGeneration(a)
       /\ EnsureFrame

WriteFrame == UNCHANGED <<trusted, memory, counts>>

CertOpen(a) ==
    /\ pc[a] = "cert_open"
    /\ \/ /\ Moves(a, "cert_open", "cert_write")
          /\ cert_file' = Torn
          /\ UNCHANGED <<key_file, history>>
       \/ Ends(a) /\ UNCHANGED <<disk, history>>
    /\ WriteFrame

CertWrite(a) ==
    /\ pc[a] = "cert_write"
    /\ \/ /\ Moves(a, "cert_write", "key_open")
          /\ cert_file' = pair[a]
          /\ UNCHANGED <<key_file, history>>
       \/ EndsHalfway(a)
    /\ WriteFrame

KeyOpen(a) ==
    /\ pc[a] = "key_open"
    /\ \/ /\ Moves(a, "key_open", "key_write")
          /\ key_file' = Torn
          /\ UNCHANGED <<cert_file, history>>
       \/ EndsHalfway(a)
    /\ WriteFrame

\* Both files are written; whoever was the only writer leaves a good CA behind.
KeyWrite(a) ==
    /\ pc[a] = "key_write"
    /\ \/ /\ Moves(a, "key_write", "nss_delete")
          /\ key_file' = pair[a]
          /\ hurt' = (hurt /\ alone # a)
          /\ UNCHANGED <<cert_file, alone, regenerated>>
       \/ EndsHalfway(a)
    /\ WriteFrame

-----------------------------------------------------------------------------
(* install_to_nss_db: certutil -D, certutil -A *)

InstallFrame == UNCHANGED <<disk, memory, counts, history>>

NssDelete(a) ==
    /\ Moves(a, "nss_delete", "nss_add")
    /\ trusted' = Missing
    /\ InstallFrame

\* certutil refuses what is no certificate, and a second one of the same name, issuer
\* and serial number.  A generation's install is followed by what its caller does next.
NssAdd(a) ==
    /\ pc[a] = "nss_add"
    /\ trusted' = IF trusted = Missing /\ cert_file \notin {Missing, Torn}
                    THEN cert_file ELSE trusted
    /\ IF pair[a] # Missing
         THEN Goto(a, AfterEnsure(a)) /\ pair' = [pair EXCEPT ![a] = Missing]
         ELSE Ends(a)
    /\ InstallFrame

-----------------------------------------------------------------------------
(* generate_leaf_cert, called by handle_https_connect_mitm *)

\* Started: main has opened the window and the listeners.
Started == work[Window] # "startup" \/ pc[Window] = "idle"

LeafFrame == UNCHANGED <<disk, trusted, counts, history>>

LookUp(h, d) ==
    /\ Started /\ pc[h] = "idle"
    /\ work' = [work EXCEPT ![h] = d]
    /\ IF leaf_cache[d] # Missing
         THEN served' = served \cup {leaf_cache[d]} /\ UNCHANGED pc
         ELSE pc' = [pc EXCEPT ![h] = "ensure"] /\ UNCHANGED served
    /\ UNCHANGED <<key_cache, leaf_cache, pair>>
    /\ LeafFrame

\* KeyPair::from_pem of what was read.
Parses(h, pem) ==
    IF pem \in Pairs THEN /\ Goto(h, "sign") /\ pair' = [pair EXCEPT ![h] = pem]
                     ELSE Ends(h)

\* Broken: reads the file each time.
ReadKeyAnew(h) ==
    /\ pc[h] = "read_key"
    /\ key_cache' = key_file
    /\ Parses(h, key_file)
    /\ UNCHANGED <<leaf_cache, served>>
    /\ LeafFrame

\* Under the cache's mutex: the first read of a run is kept, whatever it found.
ReadKey(h) ==
    /\ pc[h] = "read_key"
    /\ key_cache' = IF key_cache = Missing THEN key_file ELSE key_cache
    /\ Parses(h, key_cache')
    /\ UNCHANGED <<leaf_cache, served>>
    /\ LeafFrame

\* Two handlers may make a leaf of the same domain: the last stays in the cache.
Sign(h) ==
    /\ pc[h] = "sign"
    /\ leaf_cache' = [leaf_cache EXCEPT ![work[h]] = pair[h]]
    /\ served' = served \cup {pair[h]}
    /\ Ends(h)
    /\ UNCHANGED key_cache
    /\ LeafFrame

-----------------------------------------------------------------------------
(* The buttons of the settings panel *)

Click(button, place) ==
    /\ Started /\ pc[Window] = "idle"
    /\ pc' = [pc EXCEPT ![Window] = place]
    /\ work' = [work EXCEPT ![Window] = button]
    /\ UNCHANGED <<disk, trusted, memory, runs>>

ClickRegenerate ==
    /\ Click("regenerate", "cert_open")
    /\ BeginsGeneration(Window)
    /\ regenerated' = TRUE

\* Both only ensure that there is a CA, then copy its certificate or install it.
ClickExport == Click("export", "ensure") /\ UNCHANGED <<pair, pairs_made, history>>
ClickTrust  == Click("trust", "ensure") /\ UNCHANGED <<pair, pairs_made, history>>

\* import_ca_cert replaces the certificate and nothing else.
ClickImport ==
    /\ Click("import", "import_open")
    /\ hurt' = TRUE /\ alone' = Missing
    /\ UNCHANGED <<pair, pairs_made, regenerated>>

ImportOpen ==
    /\ \/ Moves(Window, "import_open", "import_write") /\ cert_file' = Torn
       \/ pc[Window] = "import_open" /\ Ends(Window) /\ UNCHANGED cert_file
    /\ UNCHANGED <<key_file, history>>
    /\ WriteFrame

ImportWrite ==
    /\ pc[Window] = "import_write" /\ Ends(Window)
    /\ cert_file' \in {Foreign, Torn}
    /\ UNCHANGED <<key_file, history>>
    /\ WriteFrame

\* Broken: starts with the CA it finds and installs nothing.
RestartUninstalled ==
    /\ runs < MaxRuns /\ runs' = runs + 1
    /\ hurt' = (hurt \/ (BothExist /\ \E a \in Actors : pc[a] \in Writing \ {"cert_open"}))
    /\ key_cache' = Missing /\ leaf_cache' = [d \in Domains |-> Missing] /\ served' = {}
    /\ pc' = [a \in Actors |-> "idle"] /\ work' = [a \in Actors |-> Missing]
    /\ pair' = [a \in Actors |-> Missing]
    /\ regenerated' = FALSE
    /\ UNCHANGED <<disk, trusted, pairs_made, alone>>

\* The program ends, however, and is started again.
Restart ==
    /\ runs < MaxRuns /\ runs' = runs + 1
    /\ hurt' = (hurt \/ (BothExist /\ \E a \in Actors : pc[a] \in Writing \ {"cert_open"}))
    /\ key_cache' = Missing /\ leaf_cache' = [d \in Domains |-> Missing] /\ served' = {}
    /\ pc' = StartPc /\ work' = StartWork /\ pair' = [a \in Actors |-> Missing]
    /\ regenerated' = FALSE
    /\ UNCHANGED <<disk, trusted, pairs_made, alone>>

ActorStep(a) ==
    \/ Ensure(a) \/ CertOpen(a) \/ CertWrite(a) \/ KeyOpen(a) \/ KeyWrite(a)
    \/ NssDelete(a) \/ NssAdd(a)

HandlerStep(h) == (\E d \in Domains : LookUp(h, d)) \/ ReadKey(h) \/ Sign(h)

WindowStep ==
    ClickRegenerate \/ ClickExport \/ ClickTrust \/ ClickImport \/ ImportOpen \/ ImportWrite

Next ==
    \/ \E a \in Actors : ActorStep(a)
    \/ \E h \in Handlers : HandlerStep(h)
    \/ WindowStep \/ Restart

Spec == Init /\ [][Next]_vars

-----------------------------------------------------------------------------
(* Properties *)

\* All leaves a run hands to browsers are signed with one key, whatever is regenerated or
\* imported meanwhile: a browser that trusts one of them trusts them all.
OneSigner == \A p, q \in served : p = q

Settled == \A a \in Actors : pc[a] \notin Writing \cup {"nss_delete", "nss_add"}

\* The two files belong together, though they are written one after the other and the
\* program may end in between: a certificate without its key is made anew.
FilesMatch == Settled /\ ~hurt /\ BothExist => cert_file = key_file

\* Until the user asks for another CA, browsers trust every leaf they are served.
LeavesAreTrusted ==
    Settled /\ ~hurt /\ ~regenerated => served \subseteq {trusted}
=============================================================================
