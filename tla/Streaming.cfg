CONSTANTS
    Outputs = {"left", "right"}
    NMessages = 3
    Invalid = 99
    NMakers = 2
    buffer_size = 1
    output = "left"
    Throttled = {1, 2, 3}
    max_tickets = 2
    throttled_ch = "left"
    ch_out = "left"
    Buffers = {b1, b2}
    Streams = {s1, s2}
    MaxCalls = 3
    Users = {t1, t2}
    Addresses = {p1, p2}
    MaxScopes = 3
    MaxAllocs = 3
    Copiers = {t1, t2}
    MaxCopies = 2
    MaxResets = 2
    InsertedKeys <- McInsertedKeys
    Texts <- McTexts
    ReadKeys <- McReadKeys
    Types = {"int", "bool"}
    MAX_OPTIONS = 3
    MAX_KEY_LEN = 2
    MAX_VALUE_LEN = 2
    MAX_TOTAL_SIZE = 15
    CudaThreads = {t1, t2}
    MaxSamples = 2
    MaxStarts = 2
    StatNames <- McStatNames
    Values <- McValues
    Formatters = {0, 1}
    MaxAdded = 3
    Senders = {1, 2}
    WORD_BITS = 5
    chunk_id_counter_bits = 2
    ID_BITS = 2
    MESSAGE_BITS = 2
    SIZE_BITS = 1
    Bytes <- McBytes
    Sizes = {0, 3}
    MaxSent = 3
SPECIFICATION Spec
INVARIANTS StreamsAreFaithful FanoutIsSound AccessesAreOrdered ProfilesAreTrue StatisticsSettle 
PROPERTIES NetworksWindDown
CHECK_DEADLOCK FALSE
