---- MODULE MCPagedStore ----
EXTENDS PagedStore

\* The owner alone, with long lists of pages; with a foreign reader.
Alone == [pages |-> 3, failures |-> 1, unreadable |-> {{}}, foreign |-> FALSE]
Read == [pages |-> 1, failures |-> 1, unreadable |-> {{}}, foreign |-> TRUE]
AloneOrRead == {Alone, Read}

\* Nothing fails.
Faultless == {[pages |-> 3, failures |-> 0, unreadable |-> {{}}, foreign |-> FALSE]}

\* A start fails to read the index slots.
Blind == {[pages |-> 1, failures |-> 0, unreadable |-> {{0, 1}}, foreign |-> FALSE]}

====
