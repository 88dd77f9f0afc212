---------------------------- MODULE CertStoreProofs ----------------------------
(***************************************************************************)
(* Proofs about CertStore for any number of handler threads, domains, key  *)
(* pairs and runs: leaves have one signer, the two files of the CA belong  *)
(* together, and browsers trust what they are served.                      *)
(***************************************************************************)
EXTENDS CertStore, TLAPS

Generating == {"cert_open", "cert_write", "key_open", "key_write"}

\* Who generates has a pair; before main has started, nobody else is at work.
WorkInv ==
    /\ \A a \in Actors : pc[a] \in Generating => pair[a] \in Pairs
    /\ \A a \in Actors : pc[a] # "idle" /\ work[a] = "regenerate" => regenerated
    /\ \A a \in Actors : pc[a] \in {"import_open", "import_write"} => work[a] = "import"
    /\ ~Started => served = {} /\ \A h \in Handlers : pc[h] = "idle"

\* Leaves are signed with the cached key, and with no other.
SignerInv ==
    /\ \A d \in Domains : leaf_cache[d] # Missing => leaf_cache[d] = key_cache
    /\ \A p \in served : p = key_cache
    /\ \A h \in Handlers : pc[h] = "sign" => pair[h] = key_cache /\ key_cache \in Pairs

\* While the files are not hurt there is one writer at most, and it is known to be alone.
WriterInv ==
    /\ \A a \in Actors : alone \in Actors /\ pc[a] \in Writing => alone = a
    /\ \A a \in Actors : ~hurt /\ pc[a] \in Writing => alone = a
    /\ \A a \in Actors : pc[a] \in {"import_open", "import_write"} => hurt
    /\ \A a \in Actors : alone = a /\ pc[a] \in {"key_open", "key_write"} => cert_file = pair[a]
    /\ \A a \in Actors : pc[a] \in {"cert_write", "key_open", "key_write"} => cert_file # Missing

\* Nobody has changed the files since they were last found or left in order.
Quiet == ~hurt /\ BothExist /\ \A a \in Actors : pc[a] \notin Writing \ {"cert_open"}

FileInv ==
    /\ key_file # Missing => cert_file # Missing
    /\ Quiet => cert_file = key_file /\ cert_file \in Pairs

\* The cached key is the one in the file, unless the user has asked for another; a
\* generation nobody asked for finds no key, in the file or cached.
KeyInv ==
    /\ key_cache # Missing => key_file # Missing
    /\ ~hurt /\ ~regenerated /\ key_cache \in Pairs => key_file = key_cache
    /\ \A a \in Actors : alone = a /\ work[a] # "regenerate" =>
         /\ pc[a] \in {"cert_open", "cert_write", "key_open"} => key_file = Missing
         /\ pc[a] = "key_write" => key_file = Torn /\ key_cache \notin Pairs

\* Files in order are installed, or about to be.
TrustInv ==
    Quiet => \/ trusted = cert_file
             \/ \E a \in Actors : pc[a] = "nss_delete"
             \/ trusted = Missing /\ \E a \in Actors : pc[a] = "nss_add"
             \/ pc[Window] = "ensure" /\ work[Window] = "startup"

Inv == TypeOK /\ WorkInv /\ SignerInv /\ WriterInv /\ FileInv /\ KeyInv /\ TrustInv

\* What the constants are not.
LEMMA Distinct ==
    /\ Missing \notin Pairs /\ Torn \notin Pairs /\ Foreign \notin Pairs
    /\ Missing # Torn /\ Missing # Foreign /\ Torn # Foreign
    /\ Missing \notin Actors /\ Window \in Actors /\ Window \notin Handlers
    /\ Handlers \subseteq Actors
<1>1. Pairs \subseteq Nat
  BY CertAssumption DEF Pairs
<1>. QED BY <1>1, CertAssumption DEF Actors

\* The program starts with no files and nobody at work but main.
LEMMA InitEstablishesInv == Init => Inv
<1>. SUFFICES ASSUME Init PROVE Inv
  OBVIOUS
<1>. USE Distinct DEF Init, StartPc, StartWork
<1>1. TypeOK
  <2>1. pc \in [Actors -> Places]
    BY DEF Places
  <2>2. work \in [Actors -> Works \cup {Missing}] /\ pair \in [Actors -> Pairs \cup {Missing}]
    BY DEF Works
  <2>3. pairs_made \in 0 .. MaxPairs /\ runs \in Nat
    BY CertAssumption
  <2>. QED BY <2>1, <2>2, <2>3 DEF TypeOK
<1>2. WorkInv /\ SignerInv
  BY DEF WorkInv, SignerInv, Generating, Actors
<1>3. WriterInv /\ FileInv /\ KeyInv /\ TrustInv
  BY DEF WriterInv, FileInv, KeyInv, TrustInv, Quiet, BothExist, Writing
<1>. QED BY <1>1, <1>2, <1>3 DEF Inv

\* One actor goes to another place.
LEMMA GotoMovesOne ==
    ASSUME TypeOK, NEW a \in Actors, NEW place \in Places, Goto(a, place)
    PROVE  /\ pc' \in [Actors -> Places]
           /\ \A b \in Actors : pc'[b] = IF b = a THEN place ELSE pc[b]
           /\ work' = work
BY DEF Goto, TypeOK

\* Whoever is done forgets its pair.
LEMMA EndsForgets ==
    ASSUME TypeOK, NEW a \in Actors, Ends(a)
    PROVE  /\ pc' \in [Actors -> Places]
           /\ \A b \in Actors : pc'[b] = IF b = a THEN "idle" ELSE pc[b]
           /\ work' = work
           /\ pair' \in [Actors -> Pairs \cup {Missing}]
           /\ \A b \in Actors : pair'[b] = IF b = a THEN Missing ELSE pair[b]
<1>1. "idle" \in Places
  BY DEF Places
<1>2. Goto(a, "idle")
  BY DEF Ends
<1>. QED BY <1>1, <1>2, GotoMovesOne DEF Ends, TypeOK

\* Who begins to write is alone, or the files are taken for hurt.
LEMMA BeginsWritingFacts ==
    ASSUME TypeOK, NEW a \in Actors, BeginsWriting(a)
    PROVE  /\ alone' \in Actors \cup {Missing} /\ hurt' \in BOOLEAN
           /\ hurt => hurt'
           /\ \/ alone' = a /\ hurt' = hurt /\ \A b \in Actors \ {a} : pc[b] \notin Writing
              \/ alone' = Missing /\ hurt' = TRUE
BY DEF BeginsWriting, TypeOK

\* A generation takes the next pair.
LEMMA BeginsGenerationFacts ==
    ASSUME TypeOK, NEW a \in Actors, BeginsGeneration(a)
    PROVE  /\ pairs_made' \in 0 .. MaxPairs
           /\ pair' \in [Actors -> Pairs \cup {Missing}] /\ pair'[a] \in Pairs
           /\ \A b \in Actors \ {a} : pair'[b] = pair[b]
<1>1. pairs_made + 1 \in Pairs /\ pairs_made + 1 \in 0 .. MaxPairs
  BY CertAssumption DEF BeginsGeneration, TypeOK, Pairs
<1>2. pair' = [pair EXCEPT ![a] = pairs_made + 1] /\ pairs_made' = pairs_made + 1
  BY DEF BeginsGeneration
<1>. QED BY <1>1, <1>2 DEF TypeOK

\* A CA that is there is used as it is.
LEMMA EnsureExistsKeepsInv ==
    ASSUME Inv, NEW a \in Actors, EnsureExists(a)
    PROVE  Inv'
<1>1. AfterEnsure(a) \in {"read_key", "nss_delete", "idle"}
  BY DEF AfterEnsure
<1>2. /\ pc' \in [Actors -> Places] /\ work' = work /\ pair' = pair
      /\ \A b \in Actors : pc'[b] = IF b = a THEN AfterEnsure(a) ELSE pc[b]
      /\ pc[a] = "ensure"
  BY <1>1, GotoMovesOne DEF EnsureExists, Moves, Inv, Places
<1>3. UNCHANGED <<cert_file, key_file, trusted, key_cache, leaf_cache, served, pairs_made,
                  runs, hurt, alone, regenerated>>
  BY DEF EnsureExists, EnsureFrame, disk, memory
<1>4. a = Window /\ work[a] = "startup" => AfterEnsure(a) = "nss_delete"
  BY Distinct DEF AfterEnsure
<1>. USE Distinct
<1>5. TypeOK'
  BY <1>2, <1>3 DEF Inv, TypeOK
<1>6. WorkInv'
  BY <1>1, <1>2, <1>3 DEF Inv, WorkInv, Generating, Started
<1>7. SignerInv'
  BY <1>1, <1>2, <1>3 DEF Inv, SignerInv
<1>8. WriterInv'
  BY <1>1, <1>2, <1>3 DEF Inv, WriterInv, Writing
<1>9. FileInv' /\ (Quiet' => Quiet)
  BY <1>1, <1>2, <1>3 DEF Inv, FileInv, Quiet, Writing, BothExist
<1>10. KeyInv'
  BY <1>1, <1>2, <1>3 DEF Inv, KeyInv
<1>11. TrustInv'
  BY <1>1, <1>2, <1>3, <1>4, <1>9 DEF Inv, TrustInv
<1>. QED BY <1>5, <1>6, <1>7, <1>8, <1>9, <1>10, <1>11 DEF Inv

\* A CA that is not there, or not whole, is generated.
LEMMA EnsureGeneratesKeepsInv ==
    ASSUME Inv, NEW a \in Actors, ~BothExist, pc[a] = "ensure", Goto(a, "cert_open"),
           BeginsGeneration(a), EnsureFrame
    PROVE  Inv'
<1>1. /\ pc' \in [Actors -> Places] /\ work' = work
      /\ \A b \in Actors : pc'[b] = IF b = a THEN "cert_open" ELSE pc[b]
  BY GotoMovesOne DEF Inv, Places
<1>2. UNCHANGED <<cert_file, key_file, trusted, key_cache, leaf_cache, served, runs, regenerated>>
  BY DEF EnsureFrame, disk, memory
<1>3. /\ pairs_made' \in 0 .. MaxPairs
      /\ pair' \in [Actors -> Pairs \cup {Missing}] /\ pair'[a] \in Pairs
      /\ \A b \in Actors \ {a} : pair'[b] = pair[b]
  BY BeginsGenerationFacts DEF Inv
<1>4. /\ alone' \in Actors \cup {Missing} /\ hurt' \in BOOLEAN
      /\ hurt => hurt'
      /\ \/ alone' = a /\ hurt' = hurt /\ \A b \in Actors \ {a} : pc[b] \notin Writing
         \/ alone' = Missing /\ hurt' = TRUE
  BY BeginsWritingFacts DEF BeginsGeneration, Inv
<1>. USE Distinct
<1>5. TypeOK'
  BY <1>1, <1>2, <1>3, <1>4 DEF Inv, TypeOK
<1>6. WorkInv'
  BY <1>1, <1>2, <1>3 DEF Inv, WorkInv, Generating, Started
<1>7. SignerInv'
  BY <1>1, <1>2, <1>3 DEF Inv, SignerInv
<1>8. WriterInv'
  BY <1>1, <1>2, <1>3, <1>4 DEF Inv, WriterInv, Writing
<1>9. FileInv' /\ ~BothExist'
  BY <1>1, <1>2 DEF Inv, FileInv, Quiet, BothExist
<1>10. key_file = Missing
  BY DEF BothExist, Inv, FileInv
<1>11. KeyInv'
  BY <1>1, <1>2, <1>4, <1>10 DEF Inv, KeyInv
<1>12. TrustInv'
  BY <1>9 DEF TrustInv, Quiet
<1>. QED BY <1>5, <1>6, <1>7, <1>8, <1>9, <1>11, <1>12 DEF Inv

LEMMA EnsureKeepsInv ==
    ASSUME Inv, NEW a \in Actors, Ensure(a)
    PROVE  Inv'
BY EnsureExistsKeepsInv, EnsureGeneratesKeepsInv DEF Ensure

\* The certificate's file is emptied, or cannot be opened.
LEMMA CertOpenKeepsInv ==
    ASSUME Inv, NEW a \in Actors, CertOpen(a)
    PROVE  Inv'
<1>1. UNCHANGED <<key_file, trusted, key_cache, leaf_cache, served, pairs_made, runs, hurt,
                  alone, regenerated>> /\ pc[a] = "cert_open"
  BY DEF CertOpen, WriteFrame, memory, counts, history, disk
<1>. USE Distinct
<1>2. CASE Moves(a, "cert_open", "cert_write") /\ cert_file' = Torn
  <2>1. /\ pc' \in [Actors -> Places] /\ work' = work /\ pair' = pair
        /\ \A b \in Actors : pc'[b] = IF b = a THEN "cert_write" ELSE pc[b]
    BY <1>2, GotoMovesOne DEF Moves, Inv, Places
  <2>2. TypeOK'
    BY <1>1, <1>2, <2>1 DEF Inv, TypeOK
  <2>3. WorkInv' /\ SignerInv'
    BY <1>1, <2>1 DEF Inv, WorkInv, SignerInv, Generating, Started
  <2>4. WriterInv'
    BY <1>1, <1>2, <2>1 DEF Inv, WriterInv, Writing
  <2>5. ~Quiet'
    BY <2>1 DEF Quiet, Writing
  <2>6. FileInv' /\ TrustInv'
    BY <1>2, <2>5 DEF FileInv, TrustInv
  <2>7. KeyInv'
    BY <1>1, <2>1 DEF Inv, KeyInv
  <2>. QED BY <2>2, <2>3, <2>4, <2>6, <2>7 DEF Inv
<1>3. CASE Ends(a) /\ UNCHANGED disk
  <2>1. /\ pc' \in [Actors -> Places] /\ work' = work
        /\ \A b \in Actors : pc'[b] = IF b = a THEN "idle" ELSE pc[b]
        /\ pair' \in [Actors -> Pairs \cup {Missing}]
        /\ \A b \in Actors : pair'[b] = IF b = a THEN Missing ELSE pair[b]
        /\ cert_file' = cert_file
    BY <1>3, EndsForgets DEF Inv, disk
  <2>2. TypeOK'
    BY <1>1, <2>1 DEF Inv, TypeOK
  <2>3. WorkInv' /\ SignerInv'
    BY <1>1, <2>1 DEF Inv, WorkInv, SignerInv, Generating, Started
  <2>4. WriterInv'
    BY <1>1, <2>1 DEF Inv, WriterInv, Writing
  <2>5. FileInv' /\ (Quiet' => Quiet)
    BY <1>1, <2>1 DEF Inv, FileInv, Quiet, BothExist, Writing
  <2>6. KeyInv'
    BY <1>1, <2>1 DEF Inv, KeyInv
  <2>7. TrustInv'
    BY <1>1, <2>1, <2>5 DEF Inv, TrustInv
  <2>. QED BY <2>2, <2>3, <2>4, <2>5, <2>6, <2>7 DEF Inv
<1>. QED BY <1>2, <1>3 DEF CertOpen

\* Another writer, or a write that ends halfway, and nothing is promised.
LEMMA EndsHalfwayKeepsInv ==
    ASSUME Inv, NEW a \in Actors, EndsHalfway(a), WriteFrame,
           pc[a] \in {"cert_write", "key_open", "key_write"}
    PROVE  Inv'
<1>1. /\ UNCHANGED <<cert_file, key_file, trusted, key_cache, leaf_cache, served, pairs_made,
                     runs, alone, regenerated>>
      /\ hurt' = (hurt \/ BothExist)
  BY DEF EndsHalfway, WriteFrame, memory, counts, disk
<1>2. /\ pc' \in [Actors -> Places] /\ work' = work
      /\ \A b \in Actors : pc'[b] = IF b = a THEN "idle" ELSE pc[b]
      /\ pair' \in [Actors -> Pairs \cup {Missing}]
      /\ \A b \in Actors : pair'[b] = IF b = a THEN Missing ELSE pair[b]
  BY EndsForgets DEF EndsHalfway, Inv
<1>. USE Distinct
<1>3. TypeOK'
  BY <1>1, <1>2 DEF Inv, TypeOK
<1>4. WorkInv' /\ SignerInv'
  BY <1>1, <1>2 DEF Inv, WorkInv, SignerInv, Generating, Started
<1>5. WriterInv'
  BY <1>1, <1>2 DEF Inv, WriterInv, Writing
<1>6. ~Quiet'
  BY <1>1 DEF Quiet, BothExist
<1>7. FileInv' /\ TrustInv'
  BY <1>1, <1>6 DEF Inv, FileInv, TrustInv
<1>8. KeyInv'
  BY <1>1, <1>2 DEF Inv, KeyInv
<1>. QED BY <1>3, <1>4, <1>5, <1>7, <1>8 DEF Inv

LEMMA CertWriteKeepsInv ==
    ASSUME Inv, NEW a \in Actors, CertWrite(a)
    PROVE  Inv'
<1>. USE Distinct
<1>1. CASE /\ Moves(a, "cert_write", "key_open") /\ cert_file' = pair[a]
           /\ UNCHANGED <<key_file, history>> /\ WriteFrame
  <2>1. UNCHANGED <<key_file, trusted, key_cache, leaf_cache, served, pairs_made, runs, hurt,
                    alone, regenerated>> /\ pc[a] = "cert_write"
    BY <1>1 DEF WriteFrame, Moves, memory, counts, history
  <2>2. /\ pc' \in [Actors -> Places] /\ work' = work /\ pair' = pair
        /\ \A b \in Actors : pc'[b] = IF b = a THEN "key_open" ELSE pc[b]
    BY <1>1, GotoMovesOne DEF Moves, Inv, Places
  <2>3. pair[a] \in Pairs
    BY <2>1 DEF Inv, WorkInv, Generating
  <2>4. TypeOK'
    BY <1>1, <2>1, <2>2, <2>3 DEF Inv, TypeOK
  <2>5. WorkInv' /\ SignerInv'
    BY <2>1, <2>2 DEF Inv, WorkInv, SignerInv, Generating, Started
  <2>6. WriterInv'
    BY <1>1, <2>1, <2>2, <2>3 DEF Inv, WriterInv, Writing
  <2>7. ~Quiet'
    BY <2>2 DEF Quiet, Writing
  <2>8. FileInv' /\ TrustInv'
    BY <1>1, <2>3, <2>7 DEF FileInv, TrustInv
  <2>9. KeyInv'
    BY <2>1, <2>2 DEF Inv, KeyInv
  <2>. QED BY <2>4, <2>5, <2>6, <2>8, <2>9 DEF Inv
<1>. QED BY <1>1, EndsHalfwayKeepsInv DEF CertWrite

\* A key file is emptied only by who finds no key, or was asked for a new one.
LEMMA KeyOpenKeepsInv ==
    ASSUME Inv, NEW a \in Actors, KeyOpen(a)
    PROVE  Inv'
<1>. USE Distinct
<1>1. CASE /\ Moves(a, "key_open", "key_write") /\ key_file' = Torn
           /\ UNCHANGED <<cert_file, history>> /\ WriteFrame
  <2>1. UNCHANGED <<cert_file, trusted, key_cache, leaf_cache, served, pairs_made, runs, hurt,
                    alone, regenerated>> /\ pc[a] = "key_open"
    BY <1>1 DEF WriteFrame, Moves, memory, counts, history
  <2>2. /\ pc' \in [Actors -> Places] /\ work' = work /\ pair' = pair
        /\ \A b \in Actors : pc'[b] = IF b = a THEN "key_write" ELSE pc[b]
    BY <1>1, GotoMovesOne DEF Moves, Inv, Places
  <2>3. TypeOK'
    BY <1>1, <2>1, <2>2 DEF Inv, TypeOK
  <2>4. WorkInv' /\ SignerInv'
    BY <2>1, <2>2 DEF Inv, WorkInv, SignerInv, Generating, Started
  <2>5. WriterInv'
    BY <2>1, <2>2 DEF Inv, WriterInv, Writing
  <2>6. ~Quiet' /\ cert_file # Missing
    BY <2>1, <2>2 DEF Quiet, Writing, Inv, WriterInv
  <2>7. FileInv' /\ TrustInv'
    BY <2>1, <2>6 DEF FileInv, TrustInv
  <2>8. alone = a /\ work[a] # "regenerate" => key_cache = Missing
    BY <2>1 DEF Inv, KeyInv
  <2>9. ~hurt /\ ~regenerated => key_cache = Missing
    BY <2>1, <2>8 DEF Inv, WriterInv, WorkInv, Writing
  <2>10. \A b \in Actors : alone = b /\ pc'[b] \in Writing => b = a
    BY <2>1, <2>2 DEF Inv, WriterInv, Writing
  <2>11. KeyInv'
    BY <1>1, <2>1, <2>2, <2>8, <2>9, <2>10 DEF KeyInv, Writing
  <2>. QED BY <2>3, <2>4, <2>5, <2>7, <2>11 DEF Inv
<1>. QED BY <1>1, EndsHalfwayKeepsInv DEF KeyOpen

\* The only writer leaves two files that belong together behind.
LEMMA KeyWriteKeepsInv ==
    ASSUME Inv, NEW a \in Actors, KeyWrite(a)
    PROVE  Inv'
<1>. USE Distinct
<1>1. CASE /\ Moves(a, "key_write", "nss_delete") /\ key_file' = pair[a]
           /\ hurt' = (hurt /\ alone # a)
           /\ UNCHANGED <<cert_file, alone, regenerated>> /\ WriteFrame
  <2>1. UNCHANGED <<cert_file, trusted, key_cache, leaf_cache, served, pairs_made, runs,
                    alone, regenerated>> /\ pc[a] = "key_write"
    BY <1>1 DEF WriteFrame, Moves, memory, counts
  <2>2. /\ pc' \in [Actors -> Places] /\ work' = work /\ pair' = pair
        /\ \A b \in Actors : pc'[b] = IF b = a THEN "nss_delete" ELSE pc[b]
    BY <1>1, GotoMovesOne DEF Moves, Inv, Places
  <2>3. pair[a] \in Pairs
    BY <2>1 DEF Inv, WorkInv, Generating
  <2>4. TypeOK'
    BY <1>1, <2>1, <2>2, <2>3 DEF Inv, TypeOK
  <2>5. WorkInv' /\ SignerInv'
    BY <2>1, <2>2 DEF Inv, WorkInv, SignerInv, Generating, Started
  <2>6. ~hurt' => alone = a /\ cert_file = pair[a]
    BY <1>1, <2>1 DEF Inv, WriterInv, Writing
  <2>7. alone = a => \A b \in Actors : pc'[b] \notin Writing
    BY <2>1, <2>2 DEF Inv, WriterInv, Writing
  <2>8. WriterInv'
    BY <1>1, <2>1, <2>2, <2>6, <2>7 DEF Inv, WriterInv, Writing
  <2>9. cert_file # Missing
    BY <2>1 DEF Inv, WriterInv
  <2>10. FileInv'
    BY <1>1, <2>1, <2>3, <2>6, <2>9 DEF FileInv, Quiet
  <2>11. TrustInv'
    BY <2>2 DEF TrustInv
  <2>12. alone = a /\ ~regenerated => key_cache \notin Pairs
    BY <2>1 DEF Inv, KeyInv, WorkInv
  <2>13. \A b \in Actors : alone = b => pc'[b] \notin Writing
    BY <2>1, <2>2 DEF Inv, WriterInv, Writing
  <2>14. KeyInv'
    BY <1>1, <2>1, <2>2, <2>3, <2>6, <2>12, <2>13 DEF KeyInv, Writing
  <2>. QED BY <2>4, <2>5, <2>8, <2>10, <2>11, <2>14 DEF Inv
<1>. QED BY <1>1, EndsHalfwayKeepsInv DEF KeyWrite

\* The copy the browsers had is deleted first ...
LEMMA NssDeleteKeepsInv ==
    ASSUME Inv, NEW a \in Actors, NssDelete(a)
    PROVE  Inv'
<1>. USE Distinct
<1>1. UNCHANGED <<cert_file, key_file, key_cache, leaf_cache, served, pairs_made, runs, hurt,
                  alone, regenerated>> /\ pc[a] = "nss_delete" /\ trusted' = Missing
  BY DEF NssDelete, InstallFrame, Moves, memory, counts, history, disk
<1>2. /\ pc' \in [Actors -> Places] /\ work' = work /\ pair' = pair
      /\ \A b \in Actors : pc'[b] = IF b = a THEN "nss_add" ELSE pc[b]
  BY GotoMovesOne DEF NssDelete, Moves, Inv, Places
<1>3. TypeOK'
  BY <1>1, <1>2 DEF Inv, TypeOK
<1>4. WorkInv' /\ SignerInv'
  BY <1>1, <1>2 DEF Inv, WorkInv, SignerInv, Generating, Started
<1>5. WriterInv' /\ KeyInv'
  BY <1>1, <1>2 DEF Inv, WriterInv, KeyInv, Writing
<1>6. FileInv'
  BY <1>1, <1>2 DEF Inv, FileInv, Quiet, BothExist, Writing
<1>7. TrustInv'
  BY <1>1, <1>2 DEF TrustInv
<1>. QED BY <1>3, <1>4, <1>5, <1>6, <1>7 DEF Inv

\* ... and what the file holds is added if none is there.
LEMMA NssAddKeepsInv ==
    ASSUME Inv, NEW a \in Actors, NssAdd(a)
    PROVE  Inv'
<1>. USE Distinct
<1>1. UNCHANGED <<cert_file, key_file, key_cache, leaf_cache, served, pairs_made, runs, hurt,
                  alone, regenerated>> /\ pc[a] = "nss_add"
  BY DEF NssAdd, InstallFrame, memory, counts, history, disk
<1>2. AfterEnsure(a) \in {"read_key", "nss_delete", "idle"}
  BY DEF AfterEnsure
<1>3. PICK place \in {"read_key", "nss_delete", "idle"} :
          /\ pc' \in [Actors -> Places] /\ work' = work
          /\ \A b \in Actors : pc'[b] = IF b = a THEN place ELSE pc[b]
          /\ pair' \in [Actors -> Pairs \cup {Missing}]
          /\ \A b \in Actors : pair'[b] = IF b = a THEN Missing ELSE pair[b]
  <2>1. CASE pair[a] # Missing
    <3>1. Goto(a, AfterEnsure(a)) /\ pair' = [pair EXCEPT ![a] = Missing]
      BY <2>1 DEF NssAdd
    <3>2. /\ pc' \in [Actors -> Places] /\ work' = work
          /\ \A b \in Actors : pc'[b] = IF b = a THEN AfterEnsure(a) ELSE pc[b]
      BY <3>1, <1>2, GotoMovesOne DEF Inv, Places
    <3>. QED BY <1>2, <3>1, <3>2 DEF Inv, TypeOK
  <2>2. CASE pair[a] = Missing
    BY <2>2, EndsForgets DEF NssAdd, Inv
  <2>. QED BY <2>1, <2>2
<1>4. /\ trusted' = IF trusted = Missing /\ cert_file \notin {Missing, Torn}
                      THEN cert_file ELSE trusted
  BY DEF NssAdd
<1>5. TypeOK'
  BY <1>1, <1>3, <1>4 DEF Inv, TypeOK
<1>6. WorkInv' /\ SignerInv'
  BY <1>1, <1>3 DEF Inv, WorkInv, SignerInv, Generating, Started
<1>7. WriterInv' /\ KeyInv'
  BY <1>1, <1>3 DEF Inv, WriterInv, KeyInv, Writing
<1>8. FileInv' /\ (Quiet' => Quiet)
  BY <1>1, <1>3 DEF Inv, FileInv, Quiet, BothExist, Writing
<1>9. TrustInv'
  <2>. SUFFICES ASSUME Quiet' PROVE TrustInv'
    BY DEF TrustInv
  <2>1. Quiet /\ cert_file \in Pairs
    BY <1>8 DEF Inv, FileInv
  <2>2. CASE trusted = Missing
    BY <1>1, <1>4, <2>1, <2>2 DEF TrustInv
  <2>3. CASE trusted # Missing
    BY <1>1, <1>3, <1>4, <2>1, <2>3 DEF Inv, TrustInv
  <2>. QED BY <2>2, <2>3
<1>. QED BY <1>5, <1>6, <1>7, <1>8, <1>9 DEF Inv

\* A cached leaf is served at once; for another the CA is looked for.
LEMMA LookUpKeepsInv ==
    ASSUME Inv, NEW h \in Handlers, NEW d \in Domains, LookUp(h, d)
    PROVE  Inv'
<1>. USE Distinct
<1>1. UNCHANGED <<cert_file, key_file, trusted, key_cache, leaf_cache, pair, pairs_made, runs,
                  hurt, alone, regenerated>> /\ pc[h] = "idle" /\ Started
  BY DEF LookUp, LeafFrame, counts, history, disk
<1>2. /\ work' \in [Actors -> Works \cup {Missing}]
      /\ \A b \in Actors : work'[b] = IF b = h THEN d ELSE work[b]
  BY DEF LookUp, Inv, TypeOK, Works
<1>3. d # "regenerate"
  BY CertAssumption
<1>4. CASE leaf_cache[d] # Missing
  <2>1. served' = served \cup {leaf_cache[d]} /\ pc' = pc
    BY <1>4 DEF LookUp
  <2>2. leaf_cache[d] \in Pairs /\ leaf_cache[d] = key_cache
    BY <1>4 DEF Inv, TypeOK, SignerInv
  <2>3. TypeOK'
    BY <1>1, <1>2, <2>1, <2>2 DEF Inv, TypeOK
  <2>4. WorkInv' /\ SignerInv'
    BY <1>1, <1>2, <1>3, <2>1, <2>2 DEF Inv, WorkInv, SignerInv, Generating, Started
  <2>5. WriterInv' /\ KeyInv'
    BY <1>1, <1>2, <1>3, <2>1 DEF Inv, WriterInv, KeyInv, Writing
  <2>6. FileInv' /\ TrustInv'
    BY <1>1, <1>2, <2>1 DEF Inv, FileInv, TrustInv, Quiet, BothExist
  <2>. QED BY <2>3, <2>4, <2>5, <2>6 DEF Inv
<1>5. CASE leaf_cache[d] = Missing
  <2>1. /\ served' = served /\ pc' \in [Actors -> Places]
        /\ \A b \in Actors : pc'[b] = IF b = h THEN "ensure" ELSE pc[b]
    BY <1>5 DEF LookUp, Inv, TypeOK, Places
  <2>2. TypeOK'
    BY <1>1, <1>2, <2>1 DEF Inv, TypeOK
  <2>3. WorkInv' /\ SignerInv'
    BY <1>1, <1>2, <1>3, <2>1 DEF Inv, WorkInv, SignerInv, Generating, Started
  <2>4. WriterInv' /\ KeyInv'
    BY <1>1, <1>2, <1>3, <2>1 DEF Inv, WriterInv, KeyInv, Writing
  <2>5. FileInv' /\ (Quiet' => Quiet)
    BY <1>1, <2>1 DEF Inv, FileInv, Quiet, BothExist, Writing
  <2>6. TrustInv'
    BY <1>1, <1>2, <2>1, <2>5 DEF Inv, TrustInv
  <2>. QED BY <2>2, <2>3, <2>4, <2>5, <2>6 DEF Inv
<1>. QED BY <1>4, <1>5

\* The first read of a run is the last; what it finds is the key of the file.
LEMMA ReadKeyKeepsInv ==
    ASSUME Inv, NEW h \in Handlers, ReadKey(h)
    PROVE  Inv'
<1>. USE Distinct
<1>1. UNCHANGED <<cert_file, key_file, trusted, leaf_cache, served, pairs_made, runs,
                  hurt, alone, regenerated>> /\ pc[h] = "read_key"
  BY DEF ReadKey, LeafFrame, counts, history, disk
<1>2. key_cache' = IF key_cache = Missing THEN key_file ELSE key_cache
  BY DEF ReadKey
<1>3. PICK place \in {"sign", "idle"}, p \in Pairs \cup {Missing} :
          /\ pc' \in [Actors -> Places] /\ work' = work
          /\ \A b \in Actors : pc'[b] = IF b = h THEN place ELSE pc[b]
          /\ pair' \in [Actors -> Pairs \cup {Missing}]
          /\ \A b \in Actors : pair'[b] = IF b = h THEN p ELSE pair[b]
          /\ place = "sign" => p = key_cache' /\ key_cache' \in Pairs
  <2>1. CASE key_cache' \in Pairs
    <3>1. Goto(h, "sign") /\ pair' = [pair EXCEPT ![h] = key_cache']
      BY <2>1 DEF ReadKey, Parses
    <3>2. /\ pc' \in [Actors -> Places] /\ work' = work
          /\ \A b \in Actors : pc'[b] = IF b = h THEN "sign" ELSE pc[b]
      BY <3>1, GotoMovesOne DEF Inv, Places
    <3>. QED BY <2>1, <3>1, <3>2 DEF Inv, TypeOK
  <2>2. CASE key_cache' \notin Pairs
    BY <2>2, EndsForgets DEF ReadKey, Parses, Inv
  <2>. QED BY <2>1, <2>2
<1>4. TypeOK'
  BY <1>1, <1>2, <1>3 DEF Inv, TypeOK
<1>5. WorkInv'
  BY <1>1, <1>3 DEF Inv, WorkInv, Generating, Started
<1>6. SignerInv'
  <2>1. \A b \in Handlers : pc[b] = "sign" => key_cache' = key_cache
    BY <1>2 DEF Inv, SignerInv
  <2>2. \A x \in Domains : leaf_cache[x] # Missing => key_cache' = key_cache
    BY <1>2 DEF Inv, SignerInv
  <2>3. \A s \in served : s = key_cache /\ key_cache' = key_cache
    BY <1>2 DEF Inv, SignerInv, TypeOK
  <2>. QED BY <1>1, <1>3, <2>1, <2>2, <2>3 DEF Inv, SignerInv
<1>7. WriterInv'
  BY <1>1, <1>3 DEF Inv, WriterInv, Writing
<1>8. FileInv' /\ (Quiet' => Quiet)
  BY <1>1, <1>3 DEF Inv, FileInv, Quiet, BothExist, Writing
<1>9. KeyInv'
  BY <1>1, <1>2, <1>3 DEF Inv, KeyInv
<1>10. TrustInv'
  BY <1>1, <1>3, <1>8 DEF Inv, TrustInv
<1>. QED BY <1>4, <1>5, <1>6, <1>7, <1>8, <1>9, <1>10 DEF Inv

\* The leaf is cached and served.
LEMMA SignKeepsInv ==
    ASSUME Inv, NEW h \in Handlers, Sign(h)
    PROVE  Inv'
<1>. USE Distinct
<1>1. /\ UNCHANGED <<cert_file, key_file, trusted, key_cache, pairs_made, runs, hurt, alone,
                     regenerated>>
      /\ pc[h] = "sign" /\ pair[h] = key_cache /\ key_cache \in Pairs
  BY DEF Sign, LeafFrame, counts, history, disk, Inv, SignerInv
<1>2. /\ pc' \in [Actors -> Places] /\ work' = work
      /\ \A b \in Actors : pc'[b] = IF b = h THEN "idle" ELSE pc[b]
      /\ pair' \in [Actors -> Pairs \cup {Missing}]
      /\ \A b \in Actors : pair'[b] = IF b = h THEN Missing ELSE pair[b]
  BY EndsForgets DEF Sign, Inv
<1>3. /\ leaf_cache' \in [Domains -> Pairs \cup {Missing}]
      /\ \A d \in Domains : leaf_cache'[d] = leaf_cache[d] \/ leaf_cache'[d] = key_cache
      /\ served' = served \cup {key_cache}
  BY <1>1 DEF Sign, Inv, TypeOK
<1>4. TypeOK'
  BY <1>1, <1>2, <1>3 DEF Inv, TypeOK
<1>5. WorkInv' /\ SignerInv'
  BY <1>1, <1>2, <1>3 DEF Inv, WorkInv, SignerInv, Generating, Started
<1>6. WriterInv' /\ KeyInv'
  BY <1>1, <1>2 DEF Inv, WriterInv, KeyInv, Writing
<1>7. FileInv' /\ (Quiet' => Quiet)
  BY <1>1, <1>2 DEF Inv, FileInv, Quiet, BothExist, Writing
<1>8. TrustInv'
  BY <1>1, <1>2, <1>7 DEF Inv, TrustInv
<1>. QED BY <1>4, <1>5, <1>6, <1>7, <1>8 DEF Inv

\* A button only sets the main thread to work.
LEMMA ClickFacts ==
    ASSUME Inv, NEW button \in Works, button # "startup", NEW place \in Places,
           Click(button, place)
    PROVE  /\ UNCHANGED <<cert_file, key_file, trusted, key_cache, leaf_cache, served, runs>>
           /\ pc[Window] = "idle" /\ Started /\ Started'
           /\ pc' \in [Actors -> Places] /\ work' \in [Actors -> Works \cup {Missing}]
           /\ \A b \in Actors : pc'[b] = IF b = Window THEN place ELSE pc[b]
           /\ \A b \in Actors : work'[b] = IF b = Window THEN button ELSE work[b]
BY Distinct DEF Click, Inv, TypeOK, disk, memory, Started

LEMMA ClickRegenerateKeepsInv ==
    ASSUME Inv, ClickRegenerate
    PROVE  Inv'
<1>. USE Distinct
<1>1. /\ UNCHANGED <<cert_file, key_file, trusted, key_cache, leaf_cache, served, runs>>
      /\ pc[Window] = "idle" /\ Started /\ Started'
      /\ pc' \in [Actors -> Places] /\ work' \in [Actors -> Works \cup {Missing}]
      /\ \A b \in Actors : pc'[b] = IF b = Window THEN "cert_open" ELSE pc[b]
      /\ \A b \in Actors : work'[b] = IF b = Window THEN "regenerate" ELSE work[b]
  BY ClickFacts DEF ClickRegenerate, Works, Places
<1>2. /\ pairs_made' \in 0 .. MaxPairs
      /\ pair' \in [Actors -> Pairs \cup {Missing}] /\ pair'[Window] \in Pairs
      /\ \A b \in Actors \ {Window} : pair'[b] = pair[b]
  BY BeginsGenerationFacts DEF Inv, ClickRegenerate
<1>3. /\ alone' \in Actors \cup {Missing} /\ hurt' \in BOOLEAN
      /\ hurt => hurt'
      /\ \/ /\ alone' = Window /\ hurt' = hurt
            /\ \A b \in Actors \ {Window} : pc[b] \notin Writing
         \/ alone' = Missing /\ hurt' = TRUE
  BY BeginsWritingFacts DEF BeginsGeneration, Inv, ClickRegenerate
<1>4. regenerated' = TRUE
  BY DEF ClickRegenerate
<1>5. TypeOK'
  BY <1>1, <1>2, <1>3, <1>4 DEF Inv, TypeOK
<1>6. WorkInv' /\ SignerInv'
  BY <1>1, <1>2, <1>4 DEF Inv, WorkInv, SignerInv, Generating
<1>7. WriterInv'
  BY <1>1, <1>2, <1>3 DEF Inv, WriterInv, Writing
<1>8. FileInv' /\ (Quiet' => Quiet)
  BY <1>1, <1>3 DEF Inv, FileInv, Quiet, BothExist, Writing
<1>9. KeyInv'
  BY <1>1, <1>3, <1>4 DEF Inv, KeyInv
<1>10. TrustInv'
  BY <1>1, <1>8 DEF Inv, TrustInv
<1>. QED BY <1>5, <1>6, <1>7, <1>8, <1>9, <1>10 DEF Inv

\* Exporting and trusting begin by looking for the CA.
LEMMA ClickUseKeepsInv ==
    ASSUME Inv, NEW button \in {"export", "trust"}, Click(button, "ensure"),
           UNCHANGED <<pair, pairs_made, history>>
    PROVE  Inv'
<1>. USE Distinct
<1>1. /\ UNCHANGED <<cert_file, key_file, trusted, key_cache, leaf_cache, served, runs>>
      /\ pc[Window] = "idle" /\ Started /\ Started'
      /\ pc' \in [Actors -> Places] /\ work' \in [Actors -> Works \cup {Missing}]
      /\ \A b \in Actors : pc'[b] = IF b = Window THEN "ensure" ELSE pc[b]
      /\ \A b \in Actors : work'[b] = IF b = Window THEN button ELSE work[b]
  BY ClickFacts DEF Works, Places
<1>2. UNCHANGED <<pair, pairs_made, hurt, alone, regenerated>>
  BY DEF history
<1>3. TypeOK'
  BY <1>1, <1>2 DEF Inv, TypeOK
<1>4. WorkInv' /\ SignerInv'
  BY <1>1, <1>2 DEF Inv, WorkInv, SignerInv, Generating
<1>5. WriterInv' /\ KeyInv'
  BY <1>1, <1>2 DEF Inv, WriterInv, KeyInv, Writing
<1>6. FileInv' /\ (Quiet' => Quiet)
  BY <1>1, <1>2 DEF Inv, FileInv, Quiet, BothExist, Writing
<1>7. TrustInv'
  BY <1>1, <1>6 DEF Inv, TrustInv
<1>. QED BY <1>3, <1>4, <1>5, <1>6, <1>7 DEF Inv

\* From an import on the files are taken for hurt.
LEMMA ImportKeepsInv ==
    ASSUME Inv, ClickImport \/ ImportOpen \/ ImportWrite
    PROVE  Inv'
<1>. USE Distinct
<1>1. /\ UNCHANGED <<key_file, trusted, key_cache, leaf_cache, served, pairs_made, runs,
                     regenerated>>
      /\ hurt' /\ hurt' \in BOOLEAN
      /\ alone' \in {alone, Missing} /\ alone' \in {Window, Missing}
      /\ cert_file' \in {cert_file, Torn, Foreign}
  <2>1. CASE ClickImport
    BY <2>1, ClickFacts DEF ClickImport, Works, Places
  <2>2. CASE ImportOpen
    <3>1. hurt /\ alone \in {Window, Missing}
      BY <2>2 DEF ImportOpen, Moves, Inv, WriterInv, TypeOK, Writing
    <3>. QED BY <2>2, <3>1 DEF ImportOpen, WriteFrame, memory, counts, history, Inv, TypeOK
  <2>3. CASE ImportWrite
    <3>1. hurt /\ alone \in {Window, Missing}
      BY <2>3 DEF ImportWrite, Inv, WriterInv, TypeOK, Writing
    <3>. QED BY <2>3, <3>1 DEF ImportWrite, WriteFrame, memory, counts, history, Inv, TypeOK
  <2>. QED BY <2>1, <2>2, <2>3
<1>2. PICK place \in {"import_open", "import_write", "idle"} :
          /\ pc' \in [Actors -> Places] /\ work' \in [Actors -> Works \cup {Missing}]
          /\ \A b \in Actors : pc'[b] = IF b = Window THEN place ELSE pc[b]
          /\ pair' \in [Actors -> Pairs \cup {Missing}]
          /\ \A b \in Actors : b # Window => pair'[b] = pair[b] /\ work'[b] = work[b]
          /\ work'[Window] \in {work[Window], "import"}
          /\ Started => Started'
          /\ place = "import_open" => alone' = Missing /\ work'[Window] = "import"
          /\ place = "import_write" => pc[Window] = "import_open" /\ cert_file' = Torn
  <2>1. CASE ClickImport
    BY <2>1, ClickFacts DEF ClickImport, Works, Places, Inv, TypeOK
  <2>2. CASE Moves(Window, "import_open", "import_write") /\ ImportOpen
    <3>1. /\ pc' \in [Actors -> Places] /\ work' = work /\ pair' = pair
          /\ \A b \in Actors : pc'[b] = IF b = Window THEN "import_write" ELSE pc[b]
      BY <2>2, GotoMovesOne DEF Moves, Inv, Places
    <3>2. work[Window] = "import" /\ pc[Window] = "import_open" /\ Started'
      BY <2>2, <3>1 DEF Moves, Inv, WorkInv, Started
    <3>3. cert_file' = Torn
      BY <3>2, <2>2 DEF ImportOpen, Ends, Goto, Moves, Inv, TypeOK
    <3>. QED BY <3>1, <3>2, <3>3 DEF Inv, TypeOK
  <2>3. CASE Ends(Window)
    BY <2>3, EndsForgets DEF Inv, TypeOK, Started
  <2>. QED BY <2>1, <2>2, <2>3 DEF ImportOpen, ImportWrite
<1>3. TypeOK'
  BY <1>1, <1>2 DEF Inv, TypeOK
<1>4. WorkInv'
  BY <1>1, <1>2 DEF Inv, WorkInv, Generating
<1>5. SignerInv'
  BY <1>1, <1>2 DEF Inv, SignerInv
<1>6. WriterInv'
  BY <1>1, <1>2 DEF Inv, WriterInv, Writing
<1>7. ~Quiet' /\ FileInv' /\ TrustInv'
  BY <1>1 DEF Inv, FileInv, TrustInv, Quiet
<1>8. KeyInv'
  BY <1>1, <1>2 DEF Inv, KeyInv
<1>. QED BY <1>3, <1>4, <1>5, <1>6, <1>7, <1>8 DEF Inv

\* A new run finds the files and the browsers as the last one left them.
LEMMA RestartKeepsInv ==
    ASSUME Inv, Restart
    PROVE  Inv'
<1>. USE Distinct
<1>1. /\ UNCHANGED <<cert_file, key_file, trusted, pairs_made, alone>>
      /\ runs' \in Nat /\ key_cache' = Missing /\ served' = {} /\ regenerated' = FALSE
      /\ leaf_cache' = [d \in Domains |-> Missing]
      /\ hurt' = (hurt \/ (BothExist /\ \E a \in Actors : pc[a] \in Writing \ {"cert_open"}))
  BY DEF Restart, disk, Inv, TypeOK
<1>2. /\ pc' \in [Actors -> Places] /\ work' \in [Actors -> Works \cup {Missing}]
      /\ \A b \in Actors : pc'[b] = IF b = Window THEN "ensure" ELSE "idle"
      /\ work'[Window] = "startup" /\ \A b \in Actors \ {Window} : work'[b] = Missing
      /\ pair' = [a \in Actors |-> Missing]
  BY DEF Restart, StartPc, StartWork, Places, Works
<1>3. TypeOK'
  BY <1>1, <1>2 DEF Inv, TypeOK
<1>4. WorkInv' /\ SignerInv'
  BY <1>1, <1>2 DEF WorkInv, SignerInv, Generating
<1>5. WriterInv' /\ KeyInv'
  BY <1>1, <1>2 DEF WriterInv, KeyInv, Writing
<1>6. Quiet' => Quiet
  BY <1>1 DEF Quiet, BothExist
<1>7. FileInv' /\ TrustInv'
  BY <1>1, <1>2, <1>6 DEF Inv, FileInv, TrustInv
<1>. QED BY <1>3, <1>4, <1>5, <1>7 DEF Inv

LEMMA NextKeepsInv == Inv /\ [Next]_vars => Inv'
<1>. SUFFICES ASSUME Inv, [Next]_vars PROVE Inv'
  OBVIOUS
<1>1. ASSUME NEW a \in Actors, ActorStep(a) PROVE Inv'
  BY <1>1, EnsureKeepsInv, CertOpenKeepsInv, CertWriteKeepsInv, KeyOpenKeepsInv,
     KeyWriteKeepsInv, NssDeleteKeepsInv, NssAddKeepsInv DEF ActorStep
<1>2. ASSUME NEW h \in Handlers, HandlerStep(h) PROVE Inv'
  BY <1>2, LookUpKeepsInv, ReadKeyKeepsInv, SignKeepsInv DEF HandlerStep
<1>3. CASE WindowStep
  BY <1>3, ClickRegenerateKeepsInv, ClickUseKeepsInv, ImportKeepsInv
     DEF WindowStep, ClickExport, ClickTrust
<1>4. CASE Restart
  BY <1>4, RestartKeepsInv
<1>5. CASE UNCHANGED vars
  BY <1>5 DEF vars, disk, memory, counts, history, Inv, TypeOK, WorkInv, SignerInv, WriterInv,
              FileInv, KeyInv, TrustInv, Quiet, BothExist, Started
<1>. QED BY <1>1, <1>2, <1>3, <1>4, <1>5 DEF Next

\* The invariant holds in every state the engine can reach.
THEOREM Invariance == Spec => []Inv
BY InitEstablishesInv, NextKeepsInv, PTL DEF Spec

\* Every variable keeps its type: a leaf is always signed by a pair that was made.
THEOREM TypeCorrect == Spec => []TypeOK
<1>1. Inv => TypeOK
  BY DEF Inv
<1>. QED BY <1>1, Invariance, PTL

\* All leaves a run serves are signed with one key, whatever the buttons do meanwhile.
THEOREM OneSignerInEachRun == Spec => []OneSigner
<1>1. Inv => OneSigner
  BY DEF Inv, SignerInv, OneSigner
<1>. QED BY <1>1, Invariance, PTL

\* When nobody is at work on them the certificate and the key belong together, though a
\* run may have ended between the two writes.
THEOREM FilesBelongTogether == Spec => []FilesMatch
<1>1. Inv => FilesMatch
  BY DEF Inv, FileInv, FilesMatch, Settled, Quiet, Writing
<1>. QED BY <1>1, Invariance, PTL

\* Until the user asks for another CA, what is served is signed by what browsers trust.
THEOREM LeavesTrusted == Spec => []LeavesAreTrusted
<1>1. Inv => LeavesAreTrusted
  <2>. SUFFICES ASSUME Inv, Settled, ~hurt, ~regenerated, NEW p \in served
                PROVE  p = trusted
    BY DEF LeavesAreTrusted
  <2>1. p = key_cache /\ p \in Pairs /\ key_file = p
    BY DEF Inv, SignerInv, KeyInv, TypeOK
  <2>2. BothExist
    BY <2>1, Distinct DEF BothExist, Inv, FileInv
  <2>3. Quiet
    BY <2>2 DEF Settled, Quiet, Writing
  <2>4. Started
    BY DEF Inv, WorkInv
  <2>5. trusted = cert_file
    BY <2>3, <2>4, Distinct DEF Inv, TrustInv, Settled, Started
  <2>. QED BY <2>1, <2>3, <2>5 DEF Inv, FileInv
<1>. QED BY <1>1, Invariance, PTL
=============================================================================
