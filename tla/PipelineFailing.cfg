CONSTANTS
    c1 = c1 c2 = c2 c3 = c3
    Consumers = {c1, c2}
    Producer = Producer
    Batches = 4
    Pipelines <- FailingConsumer
    MaxCancels = 0
SPECIFICATION PipelineFairSpec
PROPERTIES PipelineEnds
CHECK_DEADLOCK FALSE
