SPECIFICATION Spec
CONSTANTS
    Characters <- SomeCharacters
    Pieces <- SomePieces
    Requests <- SomeRequests
    HeaderLines <- SomeHeaders
    Words <- SomeWords
    Files <- SomeFiles
    Entries <- SomeEntries
    Environments <- SomeEnvironments
    MaxCharacters = 4
    MaxPieces = 5
    MaxHeaders = 2
    MaxOptions = 2
    MaxEntries = 3
INVARIANT EncoderKeeps
 
INVARIANT DecodedAgain
 
INVARIANT CommandLineWins
 
CHECK_DEADLOCK FALSE
