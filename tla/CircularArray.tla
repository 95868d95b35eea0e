--------------------------- MODULE CircularArray ----------------------------
(***************************************************************************)
(* The ring of src/utils/circular_array.h, whose size is a power of two and  *)
(* whose indices grow without bound: index n is kept in place n % size.      *)
(* The three task queues are built over it.                                 *)
(***************************************************************************)
EXTENDS Integers, FiniteSets

CONSTANT Junk   \* the content of memory nobody has written

circular_array_new(log_size) == [i \in 0 .. 2 ^ log_size - 1 |-> Junk]

Size(arr) == Cardinality(DOMAIN arr)

\* The arrays of memory and a new one.
Allocated(memory, a, arr) ==
    [b \in DOMAIN memory \cup {a} |-> IF b = a THEN arr ELSE memory[b]]

\* CA_GET and CA_SET: the index is masked by size - 1.
CA_GET(arr, idx) == arr[idx % Size(arr)]
CA_SET(arr, idx, elt) == [arr EXCEPT ![idx % Size(arr)] = elt]

\* A ring twice the size that has the elements of arr from index first to index
\* last, each in the place its index has in the new ring.
Copied(arr, first, last) ==
    LET size == 2 * Size(arr)
    IN  [i \in 0 .. size - 1 |->
            IF \E n \in first .. last : n % size = i
            THEN CA_GET(arr, CHOOSE n \in first .. last : n % size = i)
            ELSE Junk]

circular_array_resize(arr, bottom, top) == Copied(arr, top, bottom - 1)
=============================================================================
