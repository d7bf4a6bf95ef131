SPECIFICATION IngestionSpec
\* Requests, deliveries and faults are bounded, so ingestion comes to rest.
CHECK_DEADLOCK FALSE

    
    
PROPERTIES
    UpdatesArrive
    
