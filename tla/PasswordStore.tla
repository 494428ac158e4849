---------------------------- MODULE PasswordStore ----------------------------
(***************************************************************************)
(* PWStore of PasswordRAMStore.cc: passwords end to end in one block of    *)
(* memory, and a list of where each is.  A store is a record               *)
(*     entries   the pw_entries, in the order of their addresses           *)
(*     memory    the characters of protected_mem                           *)
(* A password is a sequence of characters, which are numbers above 0.      *)
(***************************************************************************)
EXTENDS Integers, Sequences, SequencesExt

CONSTANT ProtectedMemSize
ASSUME MemoryAssumption == ProtectedMemSize \in Nat \ {0}

NoPassword == <<0>>   \* the null pointer

PWStore == [entries |-> <<>>, memory |-> [a \in 0..(ProtectedMemSize - 1) |-> 0]]

find_key(store, key) == {i \in DOMAIN store.entries : store.entries[i].key = key}

\* The characters from an address to the next 0
StringAt(memory, a) ==
    LET end == CHOOSE z \in DOMAIN memory :
                  /\ a <= z /\ memory[z] = 0
                  /\ \A b \in DOMAIN memory : a <= b /\ b < z => memory[b] # 0
    IN  [i \in 1..(end - a) |-> memory[a + i - 1]]

lookup(store, key) ==
    IF find_key(store, key) = {} THEN NoPassword
    ELSE LET i == CHOOSE i \in find_key(store, key) :
                     \A j \in find_key(store, key) : i <= j
         IN  StringAt(store.memory, store.entries[i].password)

Written(memory, a, chars) ==
    [b \in DOMAIN memory |-> IF a <= b /\ b < a + Len(chars)
                             THEN chars[b - a + 1] ELSE memory[b]]

NextPassword(entries) ==
    IF entries = <<>> THEN 0
    ELSE entries[Len(entries)].password + entries[Len(entries)].len + 1

\* The code takes the space in use for the space that is left
AvailableLen(entries) ==
    IF entries = <<>> THEN ProtectedMemSize - 1 ELSE NextPassword(entries) - 1

Accepts(store, key, password) ==
    /\ find_key(store, key) = {}
    /\ Len(password) <= AvailableLen(store.entries)

insert(store, key, password) ==
    LET a == NextPassword(store.entries)
    IN  IF ~Accepts(store, key, password) THEN store
        ELSE [entries |-> Append(store.entries,
                                 [key |-> key, password |-> a, len |-> Len(password)]),
              memory |-> Written(store.memory, a, Append(password, 0))]

erase(store, key) ==
    IF find_key(store, key) = {} THEN store
    ELSE LET i == CHOOSE i \in find_key(store, key) :
                     \A j \in find_key(store, key) : i <= j
             e == store.entries[i]
         IN  [entries |-> RemoveAt(store.entries, i),
              memory |-> Written(store.memory, e.password, [j \in 1..e.len |-> 0])]

\* PasswordRAMStore::store(): another password replaces the one that is kept
StoredAfter(store, key, password) ==
    IF lookup(store, key) = password THEN store
    ELSE insert(erase(store, key), key, password)
=============================================================================
