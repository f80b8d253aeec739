SPECIFICATION BuiltSpec
CONSTANTS
    Fds <- MCFds
    Lens <- MCLens
    Word = 8
    Timeouts <- MCTimeouts
    Kilo = 4
INVARIANTS BuiltTypeOK SocketsAccounted HonestResult ReadWaits TcpNoSocketLeak
CHECK_DEADLOCK FALSE
