SPECIFICATION FairSpec
CONSTANTS
    Requested = {"bgp", "board", "ipsec", "pools", "ups", "wireguard", "ntp", "wifi"}
    Modes = {"api", "rest"}
    Fragmented = FALSE
INVARIANTS TypeOK RowsAnswerTheirCommand QuietBetweenCalls
PROPERTIES Termination DeadLinkFailsRawCalls
