------------------------------ MODULE MCDirectory ------------------------------
(* An empty root, and one in which three files leave one direct place. *)
EXTENDS Directory, TLC

MCMade == {<< >>, << "x1", "x2", "x3" >>}
MCSymmetry == Permutations(Name)

Relative == {<< "..">>} \cup
            {<< n >> : n \in Name} \cup {<< "..", n >> : n \in Name} \cup
            {<< n, ".." >> : n \in Name} \cup {<< ".", n >> : n \in Name}
MCTyped == {[abs |-> TRUE, names |-> path] : path \in Path \cup {<< >>}} \cup
           {[abs |-> FALSE, names |-> names] : names \in Relative}
=============================================================================
