------------------------------- MODULE IpPools ------------------------------
(***************************************************************************)
(* "IP Pool" services.  RouterOS either reports the used addresses of a    *)
(* pool with the pool, or the agent counts the leases in a second call;    *)
(* the check divides by the reported total or by the size of the ranges.   *)
(* A number that may be missing is a set of at most one number.            *)
(***************************************************************************)
EXTENDS CheckApi

\* Parts of a ranges string: first-last, address/prefix, one address.
Span(first, last) == [kind |-> "span", first |-> first, last |-> last]
Net(bits) == [kind |-> "net", bits |-> bits]
Single == [kind |-> "single"]

\* What a pool has in use; "reports" pools come with used, total and available.
Pool(name, ranges, size, reports, leases) ==
    [name |-> name, ranges |-> ranges, size |-> size, reports |-> reports, leases |-> leases]

\* The ranges of p1 have 5 addresses, or run backwards and have none.
Forward == <<Span(10, 13), Single>>
Backward == <<Span(13, 10)>>
PoolPair(ranges, size, reports, other, n) ==
    <<Pool("p1", ranges, size, reports, n), Pool("p2", <<Net(30)>>, 4, other, 1)>>

PoolDevices ==
    {PoolPair(Forward, 5, reports, other, n) :
        reports \in BOOLEAN, other \in BOOLEAN, n \in {3, 4, 5}}
    \cup {PoolPair(Backward, 0, reports, other, n) :
              reports \in BOOLEAN, other \in BOOLEAN, n \in {3, 4, 5}}
    \cup {<<>>}

\* A row of /ip/pool/print; the other call lists one row per lease.
PoolRow(pool) ==
    [name |-> pool.name, ranges |-> pool.ranges,
     used |-> IF pool.reports THEN {pool.leases} ELSE {},
     total |-> IF pool.reports /\ pool.size > 0 THEN {pool.size} ELSE {},
     available |-> IF pool.reports /\ pool.size > 0 THEN {pool.size - pool.leases} ELSE {}]

LeaseRows(device) ==
    FlattenSeq([k \in DOMAIN device |-> [lease \in 1 .. device[k].leases |-> device[k].name]])

PoolReply(call, device) ==
    IF call = "print" THEN [k \in DOMAIN device |-> PoolRow(device[k])] ELSE LeaseRows(device)

\* pool_lines: the second call only if some pool has no count.
PoolCalls(asked) ==
    IF "print" \in DOMAIN asked /\ \E row \in ToSet(RowsOf(asked.print)) : row.used = {}
    THEN <<"print", "used">> ELSE <<"print">>

\* The rows of the leases of a pool.
LeasesOf(name, rows) == Cardinality({k \in DOMAIN rows : rows[k] = name})

\* Faulty variant: a failed count is a count of nothing.
CountedOrZero(row, asked) ==
    IF row.used # {} THEN row.used ELSE {LeasesOf(row.name, RowsOf(asked.used))}

\* The count of a pool: reported, or the rows of the leases, or missing.
Counted(row, asked) ==
    CASE row.used # {} -> row.used
      [] row.used = {} /\ asked.used = Failed -> {}
      [] OTHER -> {LeasesOf(row.name, asked.used)}

\* Lines and section; parse_mikrotik_pool gives None if there is no pool.
PoolSection(asked) ==
    LET rows == ToSet(RowsOf(asked.print))
        row(name) == CHOOSE r \in rows : r.name = name
    IN IF rows = {} THEN <<>>
       ELSE <<[name \in {r.name : r \in rows} |->
                  [row(name) EXCEPT !.used = Counted(row(name), asked)]]>>

PoolDiscovered(section) == DOMAIN section

PartSize(part) ==
    CASE part.kind = "span" -> part.last - part.first + 1
      [] part.kind = "net" -> 2 ^ (32 - part.bits)
      [] part.kind = "single" -> 1

Addresses(ranges) == FoldLeft(LAMBDA sum, part : sum + PartSize(part), 0, ranges)

\* pool_size: no size if a span runs backwards or the sum is 0.
PoolSize(ranges) ==
    IF \E part \in ToSet(ranges) : part.kind = "span" /\ part.last < part.first
    THEN {}
    ELSE {Addresses(ranges)} \ {0}

PoolDefaults == [used_percent_upper |-> Fixed(80, 90)]

\* Levels are whole per cents, so the quotient may be rounded down.
Judged(used, size, available, p) ==
    LET free == IF available # {} THEN CHOOSE n \in available : TRUE
                ELSE IF size > used THEN size - used ELSE 0
    IN Worst({Upper((100 * used) \div size, p.used_percent_upper),
              IF "free_lower" \in DOMAIN p THEN Lower(free, p.free_lower) ELSE "OK"})

\* A pool that is gone yields nothing.
PoolCheck(item, rule, section) ==
    IF item \notin DOMAIN section THEN Worst({})
    ELSE LET pool == section[item]
             sizes == IF pool.total \ {0} # {} THEN pool.total ELSE PoolSize(pool.ranges)
         IN IF pool.used = {} \/ sizes = {} THEN "UNKNOWN"
            ELSE Judged(CHOOSE n \in pool.used : TRUE, CHOOSE n \in sizes : TRUE,
                        pool.available, Params(rule, PoolDefaults))
=============================================================================
