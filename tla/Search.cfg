\* Two words, on a phone and on a desktop.
SPECIFICATION MCSearchSpec
CONSTANTS
    Words = {"a", "b"}
    Hits <- MCHits
INVARIANTS
    QuietSearchIsRight
    
PROPERTIES
    SearchEnds
    
