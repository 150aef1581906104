------------------------------ MODULE Configuration ------------------------------
(* The engine's configuration (config.rs), its validation, and what the
   transport builds from a valid one: the connections' ingress profile
   (http/transport.rs) and the cap of the transfer ledger.  Byte sizes are in
   units of MIN_CHECKPOINT_BYTES, 256 bytes; durations in units of 250 ms. *)
EXTENDS Integers

CONSTANTS
    Counts,      \* values tried for a count, a duration or another small field
    Sizes,       \* values tried for a cap of the memory and write budgets
    MaxChanges,  \* fields an embedder sets before it builds the engine
    WordMax      \* u64::MAX, lowered so that products overflow

ASSUME WordAssumption == WordMax \in Nat /\ \A n \in Counts \cup Sizes : n \in 0..WordMax

VARIABLES
    config,     \* EngineConfig
    changes,
    engine,     \* "none", "refused" or "built"
    pool,       \* the cap of the ledger's aggregate pool
    open,       \* connections with an ingress charge
    pipeline    \* what the ledger has admitted for jobs

configVars == <<config, changes, engine, pool, open, pipeline>>

MIN_READ_BUFFER == 16
MIN_CHECKPOINT_BYTES == 1
INGRESS_WINDOW_CAP == 8192
MAX_HEADER_LIST_BYTES == 256
Unlimited == -1

TransferMemory ==
    [aggregate_max_bytes |-> 4194304, job_max_bytes |-> 32768, network_ingress_max_bytes |-> 32768,
     frames_max_bytes |-> 8192, writer_max_bytes |-> 8192, checkpoint_max_bytes |-> 4096]
WriteBudgetDefault == [global |-> 262144, job |-> 8192, worker_read_ahead |-> 1024]
TransferPolicy ==
    [max_workers |-> 8, min_workers |-> 1, initial_segment_size |-> 32768, min_segment_size |-> 4096,
     max_segment_size |-> 262144, auto_oversubscription |-> 3]
RetryPolicy == [max_attempts |-> 8, base_delay |-> 1, max_delay |-> 120, multiplier |-> 2]
NetworkPolicy == [connect |-> 40, tls_handshake |-> 40, response_header |-> 80, read_idle |-> 120]
PoolConfig == [max_total |-> 256, max_per_origin |-> 16, idle_timeout |-> 360]

EngineDefaults ==
    [max_active_jobs |-> 64, max_connections_total |-> 256, max_connections_per_origin |-> 16,
     read_buffer_size |-> 512, buffer_pool_max_bytes |-> 524288, writer_threads |-> 4,
     max_queued_bytes |-> 131072, checkpoint_flush_interval |-> 8, metrics_interval |-> 2,
     h2_connections |-> 1]
OptionalDefaults == [global_rate_limit |-> Unlimited, proxy_port |-> Unlimited]

Default ==
    [engine   |-> EngineDefaults, memory |-> TransferMemory, budget |-> WriteBudgetDefault,
     transfer |-> TransferPolicy, retry |-> RetryPolicy, network |-> NetworkPolicy,
     pool     |-> PoolConfig, optional |-> OptionalDefaults]

ConfigInit ==
    /\ config = Default
    /\ changes = 0 /\ engine = "none"
    /\ pool = 0 /\ open = 0 /\ pipeline = 0

(* The fields are public: an embedder starts from the defaults and sets some. *)
SetField(part, field, value) ==
    /\ engine = "none" /\ changes < MaxChanges
    /\ config' = [config EXCEPT ![part][field] = value]
    /\ changes' = changes + 1
    /\ UNCHANGED <<engine, pool, open, pipeline>>

----------------------------------------------------------------------------
(* Sizes derived from a configuration. *)

Least(a, b) == IF a < b THEN a ELSE b
Largest(a, b) == IF a > b THEN a ELSE b
frame == config.engine.read_buffer_size
Ingress == config.memory.network_ingress_max_bytes

FootprintOfHttp1 == Least(frame, Ingress) + Least(MAX_HEADER_LIST_BYTES, Ingress)

connection_ingress_footprint ==
    Largest(Least(INGRESS_WINDOW_CAP, Ingress), Least(frame, Ingress)) + Least(MAX_HEADER_LIST_BYTES, Ingress)

(* saturating_mul *)
connection_ingress_reserve ==
    Least(connection_ingress_footprint * config.engine.max_connections_total, WordMax)

(* IngressProfile::from_config: what each connection may really buffer. *)
IngressProfile ==
    LET window == Least(INGRESS_WINDOW_CAP, Ingress)
        h1_buf == Least(frame, Ingress)
        header == Least(MAX_HEADER_LIST_BYTES, Ingress)
    IN  [http1_read_buf_exact |-> h1_buf, http2_connection_window |-> window, http2_max_header_list |-> header,
         connection_footprint |-> Largest(h1_buf + header, window + header)]

----------------------------------------------------------------------------
(* EngineConfig::validate and what it calls. *)

Nonzero(record) == \A field \in DOMAIN record : record[field] # 0

validate_write_budget ==
    LET b == config.budget
    IN  /\ Nonzero(b)
        /\ b.job <= b.global
        /\ b.worker_read_ahead <= b.job
        /\ frame <= b.worker_read_ahead

(* The connections' worst case and one full job must fit the aggregate. *)
CarveOutFits ==
    LET m == config.memory
        footprints == connection_ingress_footprint * config.engine.max_connections_total
    IN  /\ footprints <= WordMax                         \* checked_mul
        /\ footprints + m.job_max_bytes <= WordMax       \* checked_add
        /\ footprints + m.job_max_bytes <= m.aggregate_max_bytes

validate_memory ==
    LET m == config.memory
    IN  /\ Nonzero(m)
        /\ \A part \in DOMAIN m \ {"aggregate_max_bytes"} : m[part] <= m.job_max_bytes
        /\ m.job_max_bytes <= m.aggregate_max_bytes
        /\ frame <= m.network_ingress_max_bytes
        /\ frame <= m.frames_max_bytes
        /\ m.checkpoint_max_bytes >= MIN_CHECKPOINT_BYTES
        /\ m.aggregate_max_bytes # WordMax
        /\ CarveOutFits
        /\ config.budget.job <= m.job_max_bytes
        /\ config.budget.global <= m.aggregate_max_bytes
        /\ config.budget.worker_read_ahead <= m.writer_max_bytes
        /\ config.engine.max_queued_bytes <= m.aggregate_max_bytes

validate_transfer ==
    LET t == config.transfer
    IN  /\ t.max_workers # 0
        /\ t.min_workers \in 1..t.max_workers
        /\ t.min_segment_size # 0
        /\ t.initial_segment_size \in t.min_segment_size..t.max_segment_size
        /\ t.auto_oversubscription # 0

validate_retry ==
    LET r == config.retry
    IN  /\ r.max_attempts # 0
        /\ r.base_delay # 0
        /\ r.max_delay >= r.base_delay
        /\ r.multiplier >= 1

validate_network == Nonzero(config.network)

validate_pool ==
    LET p == config.pool
    IN  /\ Nonzero(p)
        /\ p.max_per_origin <= p.max_total
        /\ p.max_total = config.engine.max_connections_total
        /\ p.max_per_origin = config.engine.max_connections_per_origin

validate ==
    LET e == config.engine
    IN  /\ Nonzero(e)
        /\ e.max_connections_per_origin <= e.max_connections_total
        /\ frame >= MIN_READ_BUFFER
        /\ frame <= e.buffer_pool_max_bytes
        /\ validate_write_budget
        /\ config.optional.global_rate_limit # 0
        /\ frame <= e.max_queued_bytes
        /\ validate_memory /\ validate_transfer /\ validate_retry /\ validate_network /\ validate_pool
        /\ config.optional.proxy_port # 0

----------------------------------------------------------------------------
(* HttpTransport::from_config and the engine's life. *)

from_config ==
    /\ engine = "none"
    /\ engine' = IF validate THEN "built" ELSE "refused"
    /\ pool' = IF validate THEN Largest(config.memory.aggregate_max_bytes - connection_ingress_reserve, 0) ELSE pool
    /\ UNCHANGED <<config, changes, open, pipeline>>

(* The connector's permits bound the connections; each is charged before it
   is dialled.  Next opens all that remain and reserves all that is left: the
   states between hold less. *)
Dial(n) ==
    /\ engine = "built" /\ n > 0 /\ open + n <= config.engine.max_connections_total
    /\ open' = open + n
    /\ UNCHANGED <<config, changes, engine, pool, pipeline>>

HangUp ==
    /\ open > 0
    /\ open' = 0
    /\ UNCHANGED <<config, changes, engine, pool, pipeline>>

ReservePipeline(bytes) ==
    /\ engine = "built" /\ bytes > 0 /\ pipeline + bytes <= pool
    /\ pipeline' = pipeline + bytes
    /\ UNCHANGED <<config, changes, engine, pool, open>>

ReleasePipeline ==
    /\ pipeline > 0
    /\ pipeline' = 0
    /\ UNCHANGED <<config, changes, engine, pool, open>>

ConfigNext ==
    \/ \E part \in DOMAIN Default : \E field \in DOMAIN Default[part] :
           \E value \in IF part \in {"memory", "budget"} THEN Sizes ELSE Counts : SetField(part, field, value)
    \/ from_config
    \/ Dial(config.engine.max_connections_total - open) \/ HangUp
    \/ ReservePipeline(pool - pipeline) \/ ReleasePipeline

ConfigSpec == ConfigInit /\ [][ConfigNext]_configVars

----------------------------------------------------------------------------
(* What the connections may buffer (transport.rs) and what the ledger has
   admitted for the jobs stay together within the configured aggregate
   (config.rs, TransferMemoryConfig), whatever an embedder sets: the carve-out
   is computed in one file and spent in another. *)
MemoryWithinAggregate ==
    engine = "built" => open * IngressProfile.connection_footprint + pipeline <= config.memory.aggregate_max_bytes

=============================================================================
