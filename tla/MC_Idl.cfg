\* The program ends when the document is parsed.
SPECIFICATION Spec
CONSTANTS
    include_dirs <- MC_Dirs
    Trees <- MC_Trees
INVARIANTS TypeOK IncludedFirst LoadsWhatIsReached ReadAsMeant RejectedForAReason
CHECK_DEADLOCK FALSE
