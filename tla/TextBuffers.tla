---------------------------- MODULE TextBuffers ----------------------------
(***************************************************************************)
(* The memory of a text buffer (text_buffer_stubs.c, text_buffer.ml).  The *)
(* native buffer does not copy its text: it keeps a registry of borrowed   *)
(* memory blocks, and the text is a list of pieces that name registry      *)
(* entries.  The blocks are OCaml bigarrays, which the collector frees as  *)
(* soon as the Text_buffer.t no longer holds them, in retained or in       *)
(* text_storage.                                                           *)
(*                                                                         *)
(* A memory block is named by the order of its creation, a registry entry  *)
(* by its index.  The native registry and its setters (external) may fail  *)
(* where the C layer looks for a failure.                                  *)
(***************************************************************************)
EXTENDS Naturals, FiniteSets

CONSTANTS RegistrySize,    \* entries of the native registry; mem_id is a byte
          MaxBlocks        \* bound: blocks ever allocated

ASSUME TextConstants == RegistrySize \in Nat \ {0} /\ MaxBlocks \in Nat

VARIABLES buffer,          \* is the Text_buffer.t open
          registry,        \* the native registry: the block of every entry
          text,            \* the entries the current text is made of
          allocated,       \* blocks ever allocated
          retained,        \* Text_buffer.t: blocks kept for appended or replaced text
          text_storage,    \* Text_buffer.t: the block of the last set_text
          text_memory_id   \* Text_buffer.t: its entry

nativeTextVars == <<registry, text>>
storageVars == <<retained, text_storage, text_memory_id>>
textVars == <<buffer, nativeTextVars, allocated, storageVars>>

Entries == 1 .. RegistrySize
Blocks == 1 .. MaxBlocks
NoEntry == 0
NoBlock == 0
NativeBlock == MaxBlocks + 1       \* memory that the native buffer owns itself

\* What the collector must not free: the blocks the OCaml buffer holds.
Rooted == retained \cup ({text_storage} \ {NoBlock})

FreeEntries(reg) == {e \in Entries : reg[e] = NoBlock}

\* textBufferRegisterMemBuffer: the entry it returns, NoEntry (UINT16_MAX) when
\* the registry is full.
FreshEntry(reg) ==
    IF FreeEntries(reg) = {} THEN NoEntry
    ELSE CHOOSE e \in FreeEntries(reg) : \A f \in FreeEntries(reg) : e <= f

stable_copy == allocated + 1

-----------------------------------------------------------------------------
(* Operations. *)

text_buffer_create ==
    /\ buffer = "none"
    /\ buffer' = "open"
    /\ UNCHANGED <<nativeTextVars, allocated, storageVars>>

MutantAppendForgetsBlock(done) ==
    /\ buffer = "open" /\ allocated < MaxBlocks
    /\ allocated' = stable_copy
    /\ IF done /\ FreshEntry(registry) # NoEntry
       THEN /\ registry' = [registry EXCEPT ![FreshEntry(registry)] = stable_copy]
            /\ text' = text \cup {FreshEntry(registry)}
       ELSE UNCHANGED nativeTextVars
    /\ UNCHANGED <<buffer, storageVars>>

\* append: the block is retained before the native call, which registers it
\* and adds it to the text, or fails and leaves the byte size as it was.
text_buffer_append(done) ==
    /\ buffer = "open" /\ allocated < MaxBlocks
    /\ allocated' = stable_copy
    /\ retained' = retained \cup {stable_copy}
    /\ IF done /\ FreshEntry(registry) # NoEntry
       THEN /\ registry' = [registry EXCEPT ![FreshEntry(registry)] = stable_copy]
            /\ text' = text \cup {FreshEntry(registry)}
       ELSE UNCHANGED nativeTextVars
    /\ UNCHANGED <<buffer, text_storage, text_memory_id>>

\* The entry that set_text stores the block under: the one of the previous
\* set_text when replacing it succeeds, a new one otherwise.
text_buffer_replace_mem_buffer(replaced) == replaced /\ text_memory_id # NoEntry

text_buffer_register_mem_buffer(replaced) ==
    IF text_buffer_replace_mem_buffer(replaced) THEN text_memory_id ELSE FreshEntry(registry)

\* textBufferSetTextFromMem returns nothing.  When the byte size afterwards is
\* not the expected one, the text may be the new one, empty, or still the old.
text_buffer_set_text_from_mem(entry) ==
    \/ text' = {entry}
    \/ text' = {}
    \/ UNCHANGED text

\* The blocks set_text retains: the old storage, when its entry stays in use.
RetainedBySetText(entry) ==
    IF text_memory_id \notin {NoEntry, entry} /\ text_storage # NoBlock
    THEN retained \cup {text_storage} ELSE retained

text_buffer_set_text(replaced) ==
    LET entry == text_buffer_register_mem_buffer(replaced)
    IN  /\ buffer = "open" /\ allocated < MaxBlocks
        /\ allocated' = stable_copy
        /\ IF entry = NoEntry THEN UNCHANGED <<nativeTextVars, storageVars>>
           ELSE /\ registry' = [registry EXCEPT ![entry] = stable_copy]
                /\ retained' = RetainedBySetText(entry)
                /\ text_storage' = stable_copy
                /\ text_memory_id' = entry
                /\ text_buffer_set_text_from_mem(entry)
        /\ UNCHANGED buffer

text_buffer_clear ==
    /\ buffer = "open"
    /\ text' = {}
    /\ UNCHANGED <<buffer, registry, allocated, storageVars>>

\* A styled text is "empty", "valid" or holds an "invalid" chunk, which is
\* found before the native buffer sees any of it.
read_styled_chunks(chunks) == chunks # "invalid"

\* set_styled_text: an empty list clears; the native buffer copies the chunks,
\* or is left empty when it has no entry for them.
text_buffer_set_styled_text(chunks) ==
    /\ buffer = "open"
    /\ read_styled_chunks(chunks)
    /\ IF chunks = "empty" \/ FreshEntry(registry) = NoEntry
       THEN text' = {} /\ UNCHANGED registry
       ELSE /\ registry' = [registry EXCEPT ![FreshEntry(registry)] = NativeBlock]
            /\ text' = {FreshEntry(registry)}
    /\ UNCHANGED <<buffer, allocated, storageVars>>

\* load_file: the file's bytes belong to the native buffer.
text_buffer_load_file ==
    /\ buffer = "open"
    /\ FreshEntry(registry) # NoEntry
    /\ registry' = [registry EXCEPT ![FreshEntry(registry)] = NativeBlock]
    /\ text' = {FreshEntry(registry)}
    /\ text_storage' = NoBlock
    /\ text_memory_id' = NoEntry
    /\ UNCHANGED <<buffer, allocated, retained>>

ReleaseAll ==
    /\ registry' = [e \in Entries |-> NoBlock]
    /\ text' = {}
    /\ retained' = {}
    /\ text_storage' = NoBlock
    /\ text_memory_id' = NoEntry
    /\ UNCHANGED allocated

text_buffer_reset == buffer = "open" /\ ReleaseAll /\ UNCHANGED buffer

\* close, once no view is open: the native buffer goes with its registry.
text_buffer_destroy == buffer = "open" /\ buffer' = "closed" /\ ReleaseAll

-----------------------------------------------------------------------------
TextInit ==
    /\ buffer = "none"
    /\ registry = [e \in Entries |-> NoBlock]
    /\ text = {}
    /\ allocated = 0
    /\ retained = {} /\ text_storage = NoBlock /\ text_memory_id = NoEntry

TextNext ==
    \/ text_buffer_create
    \/ \E done \in BOOLEAN : text_buffer_append(done) \/ text_buffer_set_text(done)
    \/ text_buffer_clear
    \/ \E chunks \in {"empty", "valid", "invalid"} : text_buffer_set_styled_text(chunks)
    \/ text_buffer_load_file
    \/ text_buffer_reset
    \/ text_buffer_destroy

TextSpec == TextInit /\ [][TextNext]_textVars

-----------------------------------------------------------------------------
(* Properties. *)

\* Every variable has its type.
TextTypeOK ==
    /\ buffer \in {"none", "open", "closed"}
    /\ registry \in [Entries -> 0 .. NativeBlock]
    /\ text \subseteq Entries
    /\ allocated \in 0 .. MaxBlocks
    /\ retained \subseteq Blocks
    /\ text_storage \in 0 .. MaxBlocks
    /\ text_memory_id \in 0 .. RegistrySize

\* Drawing or measuring a text reads no freed memory: every block of the current
\* text is native or held by the OCaml buffer, whichever of its setters failed.
TextMemoryRooted ==
    \A e \in text : registry[e] \in Rooted \cup {NativeBlock}

\* Replacing the text never writes over an entry that another block still owns:
\* the entry of the last set_text holds the block of the last set_text.
StorageAgrees ==
    text_memory_id # NoEntry => registry[text_memory_id] = text_storage
=============================================================================
